---------------------------- MODULE Spec2Model ----------------------------
(***************************************************************************)
(* Model of caldav-ics-sync: the relational store (src/src/db.rs) with its *)
(* path-namespace validation, and the auto-sync scheduler                  *)
(* (src/src/auto_sync.rs) driven by the HTTP handlers (src/src/api/*.rs),  *)
(* and the reverse sync of an ICS feed into a CalDAV calendar              *)
(* (src/src/api/reverse_sync.rs).                                          *)
(*                                                                         *)
(* Text is modelled as a sequence of tokens drawn from the prefix code     *)
(* {" ", "/", "..", "public", "a", "b", "n", "p", "q"}; two token          *)
(* sequences are equal iff the strings they spell are equal, so SQL string *)
(* equality, trim(), starts_with() and contains() are computed as the code *)
(* computes them.  Option<T> is a tuple of length 0 (None) or 1 (Some).    *)
(***************************************************************************)
EXTENDS Integers, Sequences, FiniteSets, TLC

VARIABLES
    db,          \* the SQLite connection's tables (AppState.db)
    last,        \* outcome of the most recent store call (observation only)
    registry,    \* AutoSyncRegistry: key -> (generation, abort handle)
    GENERATION,  \* static GENERATION: AtomicU64
    tasks,       \* every task spawned by spawn_sync_task, by generation
    handlers,    \* API request handlers and their positions
    calls,       \* handlers inside register_*, in the order they called it
    registered,  \* per key, what the latest completed register_* allocated
    requests,    \* API requests that went on to call register_* or cancel
    feed,        \* the ICS text served at a destination's ics_url
    caldav,      \* the destination calendar on the CalDAV server: href -> data
    now,         \* the clock read by is_event_in_future
    reverse,     \* the most recent run_reverse_sync: arguments and outcome
    compared,    \* two VEVENT groups handed to events_equal
    response,    \* the HTTP response to the most recent request
    store_file   \* the SQLite file as init_db finds it: tables, columns, rows

vars == <<db, last, registry, GENERATION, tasks, handlers, calls, registered,
          requests, feed, caldav, now, reverse, compared, response, store_file>>

netVars == <<feed, caldav, now, reverse, compared, response, store_file>>

-----------------------------------------------------------------------------
(* Bounds of the model.                                                    *)

MaxSources == 2        \* rows ever inserted into sources (store model)
MaxSourcePaths == 1    \* rows ever inserted into source_paths
MaxDestinations == 2   \* rows ever inserted into destinations
NumHandlers == 2       \* API requests that can be in flight at once
MaxTasks == 2          \* generations ever allocated
MaxRequests == 3       \* API requests that reach the scheduler
MaxFeedLen == 2        \* VEVENT blocks in the ICS feed
MaxNow == 1            \* readings of the clock after the first

-----------------------------------------------------------------------------
(* Option and text helpers.                                                *)

None == <<>>
Some(v) == <<v>>
IsSome(o) == o # <<>>
Unwrap(o) == o[1]
unwrap_or(o, d) == IF o # <<>> THEN o[1] ELSE d

RECURSIVE trim_start(_)
trim_start(s) == IF s # <<>> /\ Head(s) = " " THEN trim_start(Tail(s)) ELSE s

RECURSIVE trim_end(_)
trim_end(s) ==
    IF s # <<>> /\ s[Len(s)] = " " THEN trim_end(SubSeq(s, 1, Len(s) - 1)) ELSE s

trim(s) == trim_end(trim_start(s))

starts_with_slash(s) == s # <<>> /\ s[1] = "/"
contains_dotdot(s) == \E i \in 1..Len(s) : s[i] = ".."
starts_with_public_slash(s) == Len(s) >= 2 /\ s[1] = "public" /\ s[2] = "/"

Ok(conn, v) == [tag |-> "Ok", val |-> v, db |-> conn]
Err_after_insert(conn, msg) ==
    [tag |-> "Err", val |-> msg,
     db |-> [conn EXCEPT !.seq.destinations = @ + 1]]
Err(conn, msg) == [tag |-> "Err", val |-> msg, db |-> conn]

require_non_empty(value) == trim(value) # <<>>
require_non_negative(value) == value >= 0

-----------------------------------------------------------------------------
(* The store: tables of init_db and the functions of db.rs.                *)
(* conn = [sources, source_paths, ics_data, destinations, seq] where seq   *)
(* is sqlite_sequence (AUTOINCREMENT: the largest rowid ever used).        *)

EmptyDb ==
    [sources      |-> <<>>,
     source_paths |-> <<>>,
     ics_data     |-> <<>>,
     destinations |-> <<>>,
     seq          |-> [sources |-> 0, source_paths |-> 0, destinations |-> 0]]

rowid_after_the_largest(rows, seq) ==
    IF DOMAIN rows = {} THEN 1
    ELSE (CHOOSE x \in DOMAIN rows : \A y \in DOMAIN rows : y <= x) + 1

\* id INTEGER PRIMARY KEY AUTOINCREMENT: the rowid of a new row is one more
\* than the largest the table ever held (kept in sqlite_sequence, here
\* seq), whether or not that row still exists.
autoincrement(rows, seq) == seq + 1

Remove(f, k) == [x \in DOMAIN f \ {k} |-> f[x]]
Put(f, k, v) == [x \in DOMAIN f \cup {k} |-> IF x = k THEN v ELSE f[x]]

get_source(conn, id) ==
    IF id \in DOMAIN conn.sources THEN Some(conn.sources[id]) ELSE None

get_source_path(conn, id) ==
    IF id \in DOMAIN conn.source_paths THEN Some(conn.source_paths[id]) ELSE None

get_destination(conn, id) ==
    IF id \in DOMAIN conn.destinations THEN Some(conn.destinations[id]) ELSE None

\* SELECT .. FROM destinations ORDER BY id
list_destinations(conn) ==
    LET ids == DOMAIN conn.destinations IN
    [i \in 1..Cardinality(ids) |->
        LET id == CHOOSE x \in ids : Cardinality({y \in ids : y < x}) = i - 1
        IN [id |-> id, row |-> conn.destinations[id]]]

\* SELECT count(*) FROM sources WHERE (ics_path = p OR public_ics_path = p)
\*   [AND id != exclude]
count_sources_with_path(conn, p, exclude) ==
    Cardinality({i \in DOMAIN conn.sources :
        /\ (conn.sources[i].ics_path = p
              \/ conn.sources[i].public_ics_path = Some(p))
        /\ (IsSome(exclude) => i # Unwrap(exclude))})

\* SELECT count(*) FROM source_paths WHERE path = p [AND id != exclude]
count_source_paths_with_path(conn, p, exclude) ==
    Cardinality({i \in DOMAIN conn.source_paths :
        /\ conn.source_paths[i].path = p
        /\ (IsSome(exclude) => i # Unwrap(exclude))})

validate_ics_path_exact_only(path) ==
    LET trimmed == trim(path)
    IN  trimmed # <<"public">>

validate_ics_path(path) ==
    LET trimmed == trim(path)
    IN  trimmed # <<"public">> /\ ~starts_with_public_slash(trimmed)

validate_public_path(conn, path, exclude_id) ==
    IF IsSome(path) /\ trim(Unwrap(path)) # <<>> THEN
        LET p == trim(Unwrap(path)) IN
        IF starts_with_slash(p) THEN
            Err(conn, "Public ICS path must not start with /")
        ELSE IF contains_dotdot(p) THEN
            Err(conn, "Public ICS path must not contain ..")
        ELSE IF ~validate_ics_path(p) THEN
            Err(conn, "ICS path cannot start with 'public'")
        ELSE IF count_sources_with_path(conn, p, exclude_id) # 0 THEN
            Err(conn, "Duplicate public ICS path is not allowed")
        ELSE IF count_source_paths_with_path(conn, p, None) # 0 THEN
            Err(conn, "Public path conflicts with an existing source path")
        ELSE Ok(conn, Some(p))
    ELSE Ok(conn, None)

\* upd.password.filter(|s| !s.trim().is_empty()).unwrap_or(&existing.password)
password_kept_when_untrimmed_empty(supplied, existing) ==
    IF IsSome(supplied) /\ Unwrap(supplied) # <<>>
    THEN Unwrap(supplied) ELSE existing

effective_password(supplied, existing) ==
    IF IsSome(supplied) /\ trim(Unwrap(supplied)) # <<>>
    THEN Unwrap(supplied) ELSE existing

\* UNIQUE(ics_path) and the partial unique index uq_sources_public_ics_path,
\* as enforced by INSERT/UPDATE on sources for the row `id`.
sources_unique_ok(conn, id, ics_path, public_ics_path) ==
    \A i \in DOMAIN conn.sources \ {id} :
        /\ conn.sources[i].ics_path # ics_path
        /\ (IsSome(public_ics_path) =>
              conn.sources[i].public_ics_path # public_ics_path)

create_source(conn, src) ==
    IF ~require_non_empty(src.name) THEN Err(conn, "Name cannot be empty")
    ELSE IF ~require_non_empty(src.caldav_url) THEN
        Err(conn, "CalDAV URL cannot be empty")
    ELSE IF ~require_non_empty(src.username) THEN
        Err(conn, "Username cannot be empty")
    ELSE IF ~require_non_empty(src.password) THEN
        Err(conn, "Password cannot be empty")
    ELSE IF ~require_non_empty(src.ics_path) THEN
        Err(conn, "ICS Path cannot be empty")
    ELSE IF ~validate_ics_path(src.ics_path) THEN
        Err(conn, "ICS path cannot start with 'public'")
    ELSE IF ~require_non_negative(src.sync_interval_secs) THEN
        Err(conn, "Sync interval cannot be negative")
    ELSE IF count_sources_with_path(conn, src.ics_path, None) # 0 THEN
        Err(conn, "Duplicate ICS Path is not allowed")
    ELSE IF count_source_paths_with_path(conn, src.ics_path, None) # 0 THEN
        Err(conn, "ICS path conflicts with an existing source path")
    ELSE
        LET vp == IF src.public_ics
                  THEN validate_public_path(conn, src.public_ics_path, None)
                  ELSE Ok(conn, None)
        IN
        IF vp.tag = "Err" THEN vp
        ELSE IF IsSome(vp.val) /\ Unwrap(vp.val) = src.ics_path THEN
            Err(conn, "Public ICS path cannot be the same as the ICS path")
        ELSE IF ~sources_unique_ok(conn, 0, src.ics_path, vp.val) THEN
            Err(conn, "UNIQUE constraint failed")
        ELSE
            LET id == autoincrement(conn.sources, conn.seq.sources)
                row == [name               |-> src.name,
                        caldav_url         |-> src.caldav_url,
                        username           |-> src.username,
                        password           |-> src.password,
                        ics_path           |-> src.ics_path,
                        sync_interval_secs |-> src.sync_interval_secs,
                        last_synced        |-> None,
                        last_sync_status   |-> None,
                        last_sync_error    |-> None,
                        public_ics         |-> src.public_ics,
                        public_ics_path    |-> vp.val]
            IN  Ok([conn EXCEPT !.sources = Put(@, id, row),
                                !.seq.sources = id], id)


\* eff_public_path of update_source: cleared when the effective public_ics is
\* false, else the validated new alias, or the stored one when none is given.
effective_public_path_keeps_alias(conn, id, upd, existing) ==
    IF IsSome(upd.public_ics_path) /\ unwrap_or(upd.public_ics, existing.public_ics)
    THEN IF trim(Unwrap(upd.public_ics_path)) = <<>>
         THEN Ok(conn, None)
         ELSE validate_public_path(conn, upd.public_ics_path, Some(id))
    ELSE Ok(conn, existing.public_ics_path)

effective_public_path(conn, id, upd, existing) ==
    IF unwrap_or(upd.public_ics, existing.public_ics) THEN
        IF IsSome(upd.public_ics_path) THEN
            IF trim(Unwrap(upd.public_ics_path)) = <<>>
            THEN Ok(conn, None)
            ELSE validate_public_path(conn, upd.public_ics_path, Some(id))
        ELSE Ok(conn, existing.public_ics_path)
    ELSE Ok(conn, None)

update_source(conn, id, upd) ==
    IF ~IsSome(get_source(conn, id)) THEN Ok(conn, FALSE)
    ELSE
    LET existing == Unwrap(get_source(conn, id)) IN
    IF IsSome(upd.name) /\ ~require_non_empty(Unwrap(upd.name)) THEN
        Err(conn, "Name cannot be empty")
    ELSE IF IsSome(upd.caldav_url) /\ ~require_non_empty(Unwrap(upd.caldav_url)) THEN
        Err(conn, "CalDAV URL cannot be empty")
    ELSE IF IsSome(upd.username) /\ ~require_non_empty(Unwrap(upd.username)) THEN
        Err(conn, "Username cannot be empty")
    ELSE IF IsSome(upd.ics_path) /\ ~require_non_empty(Unwrap(upd.ics_path)) THEN
        Err(conn, "ICS Path cannot be empty")
    ELSE IF IsSome(upd.ics_path) /\ ~validate_ics_path(Unwrap(upd.ics_path)) THEN
        Err(conn, "ICS path cannot start with 'public'")
    ELSE IF IsSome(upd.sync_interval_secs)
              /\ ~require_non_negative(Unwrap(upd.sync_interval_secs)) THEN
        Err(conn, "Sync interval cannot be negative")
    ELSE IF IsSome(upd.ics_path)
              /\ count_sources_with_path(conn, Unwrap(upd.ics_path), Some(id)) # 0 THEN
        Err(conn, "Duplicate ICS Path is not allowed")
    ELSE IF IsSome(upd.ics_path)
              /\ count_source_paths_with_path(conn, Unwrap(upd.ics_path), None) # 0 THEN
        Err(conn, "ICS path conflicts with an existing source path")
    ELSE
    LET eff_public_ics == unwrap_or(upd.public_ics, existing.public_ics)
        vp == effective_public_path(conn, id, upd, existing)
        eff_ics_path == unwrap_or(upd.ics_path, existing.ics_path)
    IN
    IF vp.tag = "Err" THEN vp
    ELSE IF IsSome(vp.val) /\ Unwrap(vp.val) = eff_ics_path THEN
        Err(conn, "Public ICS path cannot be the same as the ICS path")
    ELSE IF ~sources_unique_ok(conn, id, eff_ics_path, vp.val) THEN
        Err(conn, "UNIQUE constraint failed")
    ELSE
    LET pw == effective_password(upd.password, existing.password)
        row == [existing EXCEPT
                  !.name = unwrap_or(upd.name, existing.name),
                  !.caldav_url = unwrap_or(upd.caldav_url, existing.caldav_url),
                  !.username = unwrap_or(upd.username, existing.username),
                  !.password = pw,
                  !.ics_path = eff_ics_path,
                  !.sync_interval_secs =
                      unwrap_or(upd.sync_interval_secs, existing.sync_interval_secs),
                  !.public_ics = eff_public_ics,
                  !.public_ics_path = vp.val]
    IN  Ok([conn EXCEPT !.sources = Put(@, id, row)], TRUE)

delete_source_without_cascade(conn, id) ==
    IF id \notin DOMAIN conn.sources THEN Ok(conn, FALSE)
    ELSE Ok([conn EXCEPT !.sources = Remove(@, id)], TRUE)

\* DELETE FROM sources; the connection runs with PRAGMA foreign_keys=ON, so
\* ON DELETE CASCADE removes the source's source_paths and ics_data rows.
delete_source(conn, id) ==
    IF id \notin DOMAIN conn.sources THEN Ok(conn, FALSE)
    ELSE Ok([conn EXCEPT
               !.sources = Remove(@, id),
               !.source_paths =
                   [x \in {y \in DOMAIN @ : @[y].source_id # id} |-> @[x]],
               !.ics_data = Remove(@, id)], TRUE)

update_last_synced(conn, id) ==
    IF id \in DOMAIN conn.sources
    THEN Ok([conn EXCEPT !.sources[id].last_synced = Some("now")], TRUE)
    ELSE Ok(conn, TRUE)

update_sync_status(conn, id, status, error) ==
    IF id \in DOMAIN conn.sources
    THEN Ok([conn EXCEPT !.sources[id].last_sync_status = Some(status),
                         !.sources[id].last_sync_error = error], TRUE)
    ELSE Ok(conn, TRUE)

\* Upsert into ics_data; source_id REFERENCES sources(id), so the insert
\* fails when the source row is gone.
save_ics_data(conn, source_id, content) ==
    IF source_id \notin DOMAIN conn.sources
    THEN Err(conn, "FOREIGN KEY constraint failed")
    ELSE Ok([conn EXCEPT !.ics_data = Put(@, source_id, content)], TRUE)

get_ics_data(conn, source_id) ==
    IF source_id \in DOMAIN conn.ics_data
    THEN Some(conn.ics_data[source_id]) ELSE None

\* SELECT d.ics_content FROM ics_data d JOIN sources s ON d.source_id = s.id
\*   WHERE s.public_ics_path = ?1 AND s.public_ics = 1
\* UNION ALL SELECT d.ics_content FROM ics_data d JOIN source_paths sp
\*   ON d.source_id = sp.source_id WHERE sp.path = ?1 AND sp.is_public = 1
\* The rows as (source, content); LIMIT 1 takes one of them, in an order the
\* query does not fix.
public_rows_ignoring_flags(conn, path) ==
    { <<i, conn.ics_data[i]>> : i \in
        { i \in DOMAIN conn.sources \cap DOMAIN conn.ics_data :
            conn.sources[i].public_ics_path = Some(path) } }
    \cup { <<conn.source_paths[k].source_id,
             conn.ics_data[conn.source_paths[k].source_id]>> : k \in
        { k \in DOMAIN conn.source_paths :
            /\ conn.source_paths[k].source_id \in DOMAIN conn.ics_data
            /\ conn.source_paths[k].path = path } }

public_rows(conn, path) ==
    { <<i, conn.ics_data[i]>> : i \in
        { i \in DOMAIN conn.sources \cap DOMAIN conn.ics_data :
            /\ conn.sources[i].public_ics_path = Some(path)
            /\ conn.sources[i].public_ics } }
    \cup { <<conn.source_paths[k].source_id,
             conn.ics_data[conn.source_paths[k].source_id]>> : k \in
        { k \in DOMAIN conn.source_paths :
            /\ conn.source_paths[k].source_id \in DOMAIN conn.ics_data
            /\ conn.source_paths[k].path = path
            /\ conn.source_paths[k].is_public } }

\* Every result the query can give: Option<String>.
get_ics_data_by_public_path(conn, path) ==
    IF public_rows(conn, path) = {} THEN {None}
    ELSE { Some(row[2]) : row \in public_rows(conn, path) }

is_public_standard_ics_any_alias(conn, ics_path) ==
    Cardinality({ i \in DOMAIN conn.sources :
                    /\ conn.sources[i].ics_path = ics_path
                    /\ conn.sources[i].public_ics })
    + Cardinality({ k \in DOMAIN conn.source_paths :
                    /\ conn.source_paths[k].path = ics_path
                    /\ conn.source_paths[k].is_public }) > 0

\* SELECT COUNT(*) FROM (SELECT 1 FROM sources WHERE ics_path = ?1 AND
\*   public_ics = 1 AND (public_ics_path IS NULL OR public_ics_path = '')
\* UNION ALL SELECT 1 FROM source_paths WHERE path = ?1 AND is_public = 1)
is_public_standard_ics(conn, ics_path) ==
    Cardinality({ i \in DOMAIN conn.sources :
                    /\ conn.sources[i].ics_path = ics_path
                    /\ conn.sources[i].public_ics
                    /\ conn.sources[i].public_ics_path \in {None, Some(<<>>)} })
    + Cardinality({ k \in DOMAIN conn.source_paths :
                    /\ conn.source_paths[k].path = ics_path
                    /\ conn.source_paths[k].is_public }) > 0

validate_source_path_among_aliases_only(conn, path, exclude_id) ==
    LET trimmed == trim(path) IN
    IF ~require_non_empty(trimmed) THEN Err(conn, "Path cannot be empty")
    ELSE IF ~validate_ics_path(trimmed) THEN
        Err(conn, "ICS path cannot start with 'public'")
    ELSE IF starts_with_slash(trimmed) THEN Err(conn, "Path must not start with /")
    ELSE IF contains_dotdot(trimmed) THEN Err(conn, "Path must not contain ..")
    ELSE IF count_source_paths_with_path(conn, trimmed, exclude_id) # 0 THEN
        Err(conn, "Duplicate path is not allowed")
    ELSE Ok(conn, trimmed)

validate_source_path(conn, path, exclude_id) ==
    LET trimmed == trim(path) IN
    IF ~require_non_empty(trimmed) THEN Err(conn, "Path cannot be empty")
    ELSE IF ~validate_ics_path(trimmed) THEN
        Err(conn, "ICS path cannot start with 'public'")
    ELSE IF starts_with_slash(trimmed) THEN Err(conn, "Path must not start with /")
    ELSE IF contains_dotdot(trimmed) THEN Err(conn, "Path must not contain ..")
    ELSE IF count_sources_with_path(conn, trimmed, None) # 0 THEN
        Err(conn, "Path conflicts with an existing source ICS path")
    ELSE IF count_source_paths_with_path(conn, trimmed, exclude_id) # 0 THEN
        Err(conn, "Duplicate path is not allowed")
    ELSE Ok(conn, trimmed)

create_source_path(conn, source_id, body) ==
    IF ~IsSome(get_source(conn, source_id)) THEN Err(conn, "Source not found")
    ELSE
    LET v == validate_source_path(conn, body.path, None) IN
    IF v.tag = "Err" THEN v
    ELSE
        LET id == autoincrement(conn.source_paths, conn.seq.source_paths)
            row == [source_id |-> source_id, path |-> v.val,
                    is_public |-> body.is_public]
        IN  Ok([conn EXCEPT !.source_paths = Put(@, id, row),
                            !.seq.source_paths = id], id)

update_source_path(conn, id, upd) ==
    IF ~IsSome(get_source_path(conn, id)) THEN Ok(conn, FALSE)
    ELSE
    LET existing == Unwrap(get_source_path(conn, id))
        v == IF IsSome(upd.path)
             THEN validate_source_path(conn, Unwrap(upd.path), Some(id))
             ELSE Ok(conn, existing.path)
    IN
    IF v.tag = "Err" THEN v
    ELSE
        LET row == [existing EXCEPT
                      !.path = v.val,
                      !.is_public = unwrap_or(upd.is_public, existing.is_public)]
        IN  Ok([conn EXCEPT !.source_paths = Put(@, id, row)], TRUE)

delete_source_path(conn, id) ==
    IF id \notin DOMAIN conn.source_paths THEN Ok(conn, FALSE)
    ELSE Ok([conn EXCEPT !.source_paths = Remove(@, id)], TRUE)

create_destination(conn, dest) ==
    IF ~require_non_empty(dest.name) THEN Err(conn, "Name cannot be empty")
    ELSE IF ~require_non_empty(dest.ics_url) THEN Err(conn, "ICS URL cannot be empty")
    ELSE IF ~require_non_empty(dest.caldav_url) THEN
        Err(conn, "CalDAV URL cannot be empty")
    ELSE IF ~require_non_empty(dest.calendar_name) THEN
        Err(conn, "Calendar name cannot be empty")
    ELSE IF ~require_non_empty(dest.username) THEN
        Err(conn, "Username cannot be empty")
    ELSE IF ~require_non_empty(dest.password) THEN
        Err(conn, "Password cannot be empty")
    ELSE IF ~require_non_negative(dest.sync_interval_secs) THEN
        Err(conn, "Sync interval cannot be negative")
    ELSE
        LET id == autoincrement(conn.destinations, conn.seq.destinations)
            row == [name               |-> dest.name,
                    ics_url            |-> dest.ics_url,
                    caldav_url         |-> dest.caldav_url,
                    calendar_name      |-> dest.calendar_name,
                    username           |-> dest.username,
                    password           |-> dest.password,
                    sync_interval_secs |-> dest.sync_interval_secs,
                    sync_all           |-> dest.sync_all,
                    keep_local         |-> dest.keep_local,
                    last_synced        |-> None,
                    last_sync_status   |-> None,
                    last_sync_error    |-> None]
        IN  Ok([conn EXCEPT !.destinations = Put(@, id, row),
                            !.seq.destinations = id], id)

update_destination(conn, id, upd) ==
    IF ~IsSome(get_destination(conn, id)) THEN Ok(conn, FALSE)
    ELSE
    LET existing == Unwrap(get_destination(conn, id)) IN
    IF IsSome(upd.name) /\ ~require_non_empty(Unwrap(upd.name)) THEN
        Err(conn, "Name cannot be empty")
    ELSE IF IsSome(upd.ics_url) /\ ~require_non_empty(Unwrap(upd.ics_url)) THEN
        Err(conn, "ICS URL cannot be empty")
    ELSE IF IsSome(upd.caldav_url) /\ ~require_non_empty(Unwrap(upd.caldav_url)) THEN
        Err(conn, "CalDAV URL cannot be empty")
    ELSE IF IsSome(upd.calendar_name)
              /\ ~require_non_empty(Unwrap(upd.calendar_name)) THEN
        Err(conn, "Calendar name cannot be empty")
    ELSE IF IsSome(upd.username) /\ ~require_non_empty(Unwrap(upd.username)) THEN
        Err(conn, "Username cannot be empty")
    ELSE IF IsSome(upd.sync_interval_secs)
              /\ ~require_non_negative(Unwrap(upd.sync_interval_secs)) THEN
        Err(conn, "Sync interval cannot be negative")
    ELSE
    LET pw == effective_password(upd.password, existing.password)
        row == [existing EXCEPT
                  !.name = unwrap_or(upd.name, existing.name),
                  !.ics_url = unwrap_or(upd.ics_url, existing.ics_url),
                  !.caldav_url = unwrap_or(upd.caldav_url, existing.caldav_url),
                  !.calendar_name =
                      unwrap_or(upd.calendar_name, existing.calendar_name),
                  !.username = unwrap_or(upd.username, existing.username),
                  !.password = pw,
                  !.sync_interval_secs =
                      unwrap_or(upd.sync_interval_secs, existing.sync_interval_secs),
                  !.sync_all = unwrap_or(upd.sync_all, existing.sync_all),
                  !.keep_local = unwrap_or(upd.keep_local, existing.keep_local)]
    IN  Ok([conn EXCEPT !.destinations = Put(@, id, row)], TRUE)

delete_destination(conn, id) ==
    IF id \notin DOMAIN conn.destinations THEN Ok(conn, FALSE)
    ELSE Ok([conn EXCEPT !.destinations = Remove(@, id)], TRUE)

update_destination_sync_status(conn, id, status, error) ==
    IF id \in DOMAIN conn.destinations
    THEN Ok([conn EXCEPT !.destinations[id].last_sync_status = Some(status),
                         !.destinations[id].last_sync_error = error,
                         !.destinations[id].last_synced = Some("now")], TRUE)
    ELSE Ok(conn, TRUE)

-----------------------------------------------------------------------------
(* Inputs of the store calls.  Two families are used: path-focused inputs  *)
(* (every other field valid and fixed) and row-focused inputs (paths valid *)
(* and fixed; passwords, text fields and intervals vary).                  *)

ValidText == <<"n">>
TextInputs == {None, Some(<<" ">>), Some(ValidText)}
PasswordInputs == {None, Some(<<>>), Some(<<" ">>), Some(<<"p">>), Some(<<"q">>)}

PathInputs ==
    { <<"a">>, <<"b">>, <<" ", "a">>, <<"public">>, <<"public", "/", "a">> }
OptPathInputs == {None} \cup {Some(x) : x \in PathInputs}
OptBool == {None, Some(TRUE), Some(FALSE)}

ValidSource ==
    [name |-> ValidText, caldav_url |-> ValidText, username |-> ValidText,
     password |-> <<"p">>, ics_path |-> <<"a">>, sync_interval_secs |-> 5,
     public_ics |-> FALSE, public_ics_path |-> None]

NoUpdateSource ==
    [name |-> None, caldav_url |-> None, username |-> None, password |-> None,
     ics_path |-> None, sync_interval_secs |-> None, public_ics |-> None,
     public_ics_path |-> None]

ValidDestination ==
    [name |-> ValidText, ics_url |-> ValidText, caldav_url |-> ValidText,
     calendar_name |-> ValidText, username |-> ValidText, password |-> <<"p">>,
     sync_interval_secs |-> 5, sync_all |-> FALSE, keep_local |-> FALSE]

NoUpdateDestination ==
    [name |-> None, ics_url |-> None, caldav_url |-> None, calendar_name |-> None,
     username |-> None, password |-> None, sync_interval_secs |-> None,
     sync_all |-> None, keep_local |-> None]

ServablePaths == { <<"a">>, <<"b">>, <<" ", "a">> }

\* public_ics = false with and without an alias; public_ics = true with every
\* alias on every servable ics_path, and on the reserved ics_paths.
PathCreateSourceInputs ==
    { [ValidSource EXCEPT !.ics_path = p, !.public_ics_path = pp] :
        p \in PathInputs, pp \in {None, Some(<<"b">>)} }
    \cup { [ValidSource EXCEPT !.ics_path = p, !.public_ics = TRUE,
                               !.public_ics_path = pp] :
             p \in ServablePaths, pp \in OptPathInputs }
    \cup { [ValidSource EXCEPT !.ics_path = p, !.public_ics = TRUE] :
             p \in PathInputs }

\* A change of ics_path and public_ics; a change of the alias and public_ics;
\* a change of all three to servable values.
PathUpdateSourceInputs ==
    { [NoUpdateSource EXCEPT !.ics_path = p, !.public_ics = b] :
        p \in OptPathInputs, b \in OptBool }
    \cup { [NoUpdateSource EXCEPT !.public_ics = b, !.public_ics_path = Some(pp)] :
             b \in OptBool, pp \in PathInputs \cup {<<" ">>} }
    \cup { [NoUpdateSource EXCEPT !.ics_path = Some(p), !.public_ics = Some(TRUE),
                                  !.public_ics_path = Some(pp)] :
             p \in ServablePaths, pp \in ServablePaths }

PathCreateSourcePathInputs ==
    { [path |-> p, is_public |-> b] : p \in PathInputs, b \in BOOLEAN }

PathUpdateSourcePathInputs ==
    { [path |-> p, is_public |-> b] : p \in OptPathInputs, b \in OptBool }

RowCreateSourceInputs ==
    { [ValidSource EXCEPT !.ics_path = p, !.password = pw] :
        p \in {<<"a">>, <<"b">>}, pw \in {<<"p">>, <<" ">>} }
    \cup { [ValidSource EXCEPT !.name = <<" ">>],
           [ValidSource EXCEPT !.sync_interval_secs = -1] }

RowUpdateSourceInputs ==
    { [NoUpdateSource EXCEPT !.password = pw] : pw \in PasswordInputs }
    \cup { [NoUpdateSource EXCEPT !.name = t, !.password = Some(<<"q">>)] :
             t \in TextInputs }

RowCreateSourcePathInputs == { [path |-> <<"b">>, is_public |-> FALSE] }

RowCreateDestinationInputs ==
    { ValidDestination,
      [ValidDestination EXCEPT !.password = <<>>],
      [ValidDestination EXCEPT !.sync_interval_secs = -1] }

RowUpdateDestinationInputs ==
    { [NoUpdateDestination EXCEPT !.password = pw] : pw \in PasswordInputs }
    \cup { [NoUpdateDestination EXCEPT !.name = t, !.password = Some(<<"q">>)] :
             t \in TextInputs }

IcsContents == {"ics1"}

-----------------------------------------------------------------------------
(* Observation of a store call: which function ran and how it ended (msg   *)
(* is the error text); for a call that succeeded also the row id, the      *)
(* password it was given, the target row's password and public_ics_path    *)
(* before the call, and the number of dependent rows (source_paths,        *)
(* ics_data) the call removed.                                             *)

\* Result<bool>: Ok(true), Ok(false) (no such row) or Err.
Outcome(r) ==
    IF r.tag = "Err" THEN "err" ELSE IF r.val THEN "ok" ELSE "notfound"

\* Result<i64>: Ok(rowid) or Err.
OutcomeId(r) == IF r.tag = "Err" THEN "err" ELSE "ok"

Dependents(conn) ==
    Cardinality(DOMAIN conn.source_paths) + Cardinality(DOMAIN conn.ics_data)

PrevOf(row) ==
    IF IsSome(row)
    THEN [password |-> Some(Unwrap(row).password),
          public_ics_path |->
              IF "public_ics_path" \in DOMAIN Unwrap(row)
              THEN Unwrap(row).public_ics_path ELSE None]
    ELSE [password |-> None, public_ics_path |-> None]

Observe(op, id, r, res, pw, row) ==
    IF res = "ok"
    THEN [op |-> op, id |-> id, res |-> res, msg |-> "", pw |-> pw,
          prev |-> PrevOf(row), cascaded |-> Dependents(db) - Dependents(r.db)]
    ELSE [op |-> op, id |-> 0, res |-> res,
          msg |-> IF r.tag = "Err" THEN r.val ELSE "", pw |-> None,
          prev |-> PrevOf(None), cascaded |-> 0]

NoCall ==
    [op |-> "none", id |-> 0, res |-> "ok", msg |-> "", pw |-> None,
     prev |-> PrevOf(None), cascaded |-> 0]

\* Ids a request names: every id ever assigned (live rows and deleted ones).
SourceIds == 1..db.seq.sources
SourcePathIds == 1..db.seq.source_paths
DestinationIds == 1..db.seq.destinations

\* No HTTP response observed, or the store has changed since.
NoResponse == [handler |-> "none", request |-> <<>>, status |-> 0, body |-> ""]

schedVars ==
    <<registry, GENERATION, tasks, handlers, calls, registered, requests>>

-----------------------------------------------------------------------------
(* Store actions: one call of a db.rs function on the shared connection.   *)

CreateSource(src) ==
    /\ db.seq.sources < MaxSources
    /\ LET r == create_source(db, src) IN
       /\ db' = r.db
       /\ last' = Observe("create_source", IF r.tag = "Ok" THEN r.val ELSE 0,
                          r, OutcomeId(r), None, None)
    /\ response' = NoResponse
    /\ UNCHANGED <<schedVars, feed, caldav, now, reverse, compared, store_file>>

UpdateSource(id, upd) ==
    /\ LET r == update_source(db, id, upd) IN
       /\ db' = r.db
       /\ last' = Observe("update_source", id, r, Outcome(r), upd.password,
                          get_source(db, id))
    /\ response' = NoResponse
    /\ UNCHANGED <<schedVars, feed, caldav, now, reverse, compared, store_file>>

DeleteSource(id) ==
    /\ LET r == delete_source(db, id) IN
       /\ db' = r.db
       /\ last' = Observe("delete_source", id, r, Outcome(r), None, None)
    /\ response' = NoResponse
    /\ UNCHANGED <<schedVars, feed, caldav, now, reverse, compared, store_file>>

SaveIcsData(id, content) ==
    /\ LET r == save_ics_data(db, id, content) IN
       /\ db' = r.db
       /\ last' = Observe("save_ics_data", id, r, Outcome(r), None, None)
    /\ response' = NoResponse
    /\ UNCHANGED <<schedVars, feed, caldav, now, reverse, compared, store_file>>

CreateSourcePath(source_id, body) ==
    /\ db.seq.source_paths < MaxSourcePaths
    /\ LET r == create_source_path(db, source_id, body) IN
       /\ db' = r.db
       /\ last' = Observe("create_source_path", IF r.tag = "Ok" THEN r.val ELSE 0,
                          r, OutcomeId(r), None, None)
    /\ response' = NoResponse
    /\ UNCHANGED <<schedVars, feed, caldav, now, reverse, compared, store_file>>

UpdateSourcePath(id, upd) ==
    /\ LET r == update_source_path(db, id, upd) IN
       /\ db' = r.db
       /\ last' = Observe("update_source_path", id, r, Outcome(r), None, None)
    /\ response' = NoResponse
    /\ UNCHANGED <<schedVars, feed, caldav, now, reverse, compared, store_file>>

DeleteSourcePath(id) ==
    /\ LET r == delete_source_path(db, id) IN
       /\ db' = r.db
       /\ last' = Observe("delete_source_path", id, r, Outcome(r), None, None)
    /\ response' = NoResponse
    /\ UNCHANGED <<schedVars, feed, caldav, now, reverse, compared, store_file>>

CreateDestination(dest) ==
    /\ db.seq.destinations < MaxDestinations
    /\ LET r == create_destination(db, dest) IN
       /\ db' = r.db
       /\ last' = Observe("create_destination", IF r.tag = "Ok" THEN r.val ELSE 0,
                          r, OutcomeId(r), None, None)
    /\ response' = NoResponse
    /\ UNCHANGED <<schedVars, feed, caldav, now, reverse, compared, store_file>>

UpdateDestination(id, upd) ==
    /\ LET r == update_destination(db, id, upd) IN
       /\ db' = r.db
       /\ last' = Observe("update_destination", id, r, Outcome(r), upd.password,
                          get_destination(db, id))
    /\ response' = NoResponse
    /\ UNCHANGED <<schedVars, feed, caldav, now, reverse, compared, store_file>>

DeleteDestination(id) ==
    /\ LET r == delete_destination(db, id) IN
       /\ db' = r.db
       /\ last' = Observe("delete_destination", id, r, Outcome(r), None, None)
    /\ response' = NoResponse
    /\ UNCHANGED <<schedVars, feed, caldav, now, reverse, compared, store_file>>

-----------------------------------------------------------------------------
(* The auto-sync scheduler (src/src/auto_sync.rs).  The registry maps a    *)
(* key to the generation of the task whose AbortHandle it stores.  The     *)
(* runtime is multi-threaded (#[tokio::main]), so handlers and tasks       *)
(* interleave at every lock acquisition; a task honours abort() only at an *)
(* .await that is pending (the network call, a backoff delay, the sleep)   *)
(* or before its first poll.  A task's pc names the place it is parked:   *)
(* "wait" (not yet polled, or in the interval sleep), "net", "backoff",    *)
(* or "exit" (past the loop, before try_remove).                           *)

AutoSyncKey(kind, id) == [kind |-> kind, id |-> id]
NoKey == AutoSyncKey("none", 0)

\* guard: the handler holds the MutexGuard of state.db; registry_guard: it
\* holds the one of the registry.
IdleHandler ==
    [pc |-> "idle", op |-> "none", key |-> NoKey, interval |-> 0,
     generation |-> 0, had |-> FALSE, superseded |-> FALSE, guard |-> FALSE,
     registry_guard |-> FALSE]

\* fetch_add(1): the value before the increment is the caller's generation.
next_generation(counter) == [generation |-> counter, counter |-> counter + 1]

\* AbortHandle::abort: a task parked at an .await (or not yet polled) is
\* dropped there; one that is running goes on to its next .await, if any.
abort(tsk, g) ==
    IF tsk[g].pc \in {"wait", "net", "backoff"}
    THEN [tsk EXCEPT ![g].pc = "cancelled", ![g].aborted = TRUE]
    ELSE IF tsk[g].pc \in {"exit", "get", "resumed", "commit", "failed",
                           "handle_sync_error"}
    THEN [tsk EXCEPT ![g].aborted = TRUE]
    ELSE tsk

cancel_and_forget_handle(reg, tsk, key) ==
    IF key \in DOMAIN reg
    THEN [registry |-> Remove(reg, key), tasks |-> tsk]
    ELSE [registry |-> reg, tasks |-> tsk]

\* map.remove(key), and abort() on the handle that was stored.
cancel(reg, tsk, key) ==
    IF key \in DOMAIN reg
    THEN [registry |-> Remove(reg, key), tasks |-> abort(tsk, reg[key])]
    ELSE [registry |-> reg, tasks |-> tsk]

try_remove_any_generation(reg, key, generation) ==
    IF key \in DOMAIN reg THEN Remove(reg, key) ELSE reg

\* Remove the entry only when it carries the caller's generation.
try_remove(reg, key, generation) ==
    IF key \in DOMAIN reg /\ reg[key] = generation
    THEN Remove(reg, key) ELSE reg

\* The entity a key names, as the sync closures and handle_sync_error read it.
get_entity(conn, key) ==
    IF key.kind = "Source" THEN get_source(conn, key.id)
    ELSE get_destination(conn, key.id)

handle_sync_error_keeps_going(conn, key, msg) == Ok(conn, TRUE)

\* handle_sync_error: record the failure on the entity and keep going (true),
\* or report that the entity is gone (false).
handle_sync_error(conn, key, msg) ==
    IF ~IsSome(get_entity(conn, key)) THEN Ok(conn, FALSE)
    ELSE IF key.kind = "Source"
    THEN Ok(update_sync_status(conn, key.id, "error", Some(msg)).db, TRUE)
    ELSE Ok(update_destination_sync_status(conn, key.id, "error", Some(msg)).db,
            TRUE)

\* Second half of the sync closure, after the network call succeeded: the
\* writes made under one hold of the db lock.
sync_fn_commit(conn, key, content) ==
    IF key.kind = "Source" THEN
        LET r1 == save_ics_data(conn, key.id, content) IN
        IF r1.tag = "Err" THEN r1
        ELSE update_sync_status(update_last_synced(r1.db, key.id).db,
                                key.id, "ok", None)
    ELSE update_destination_sync_status(conn, key.id, "ok", None)

on_retry_err_breaks(conn, t) ==
    [db |-> handle_sync_error(conn, t.key, "sync failed").db,
     task |-> [t EXCEPT !.pc = "exit"]]

\* Retry::spawn returned Err: handle_sync_error decides between the interval
\* sleep and leaving the loop.
on_retry_err(conn, t) ==
    LET r == handle_sync_error(conn, t.key, "sync failed") IN
    [db |-> r.db,
     task |-> [t EXCEPT !.pc = IF r.val THEN "wait" ELSE "exit"]]

on_transient_journals_each_failure(conn, t, delay_left) ==
    IF delay_left
    THEN [db |-> handle_sync_error(conn, t.key, "sync failed").db,
          task |-> [t EXCEPT !.pc = "backoff"]]
    ELSE on_retry_err(conn, t)

\* A transient failure inside Retry::spawn: wait for the next delay of the
\* strategy, or give up when its delays (.take(MAX_RETRIES)) are used up.
\* How many delays a task has used is not tracked; delay_left says whether
\* this failure still finds one.
on_transient(conn, t, delay_left) ==
    IF delay_left
    THEN [db |-> conn, task |-> [t EXCEPT !.pc = "backoff"]]
    ELSE on_retry_err(conn, t)

MAX_RETRIES == 5

strategy_takes_one_more(t) == t.retries <= MAX_RETRIES

\* ExponentialBackoff...take(MAX_RETRIES): the strategy yields MAX_RETRIES
\* delays; Retry waits for one after each transient failure while one is left.
strategy_has_delay(t) == t.retries < MAX_RETRIES

\* First half of the sync closure: read the entity under the db lock; a
\* missing entity is a permanent error, else the network call is awaited.
sync_fn_fetch(conn, t) ==
    IF IsSome(get_entity(conn, t.key))
    THEN [db |-> conn, task |-> [t EXCEPT !.pc = "net"]]
    ELSE on_retry_err(conn, t)

\* retries: delays of the current Retry strategy already used; guard: the
\* task holds the MutexGuard of state.db; registry_guard: it holds the one
\* of the registry.
NewTask(key) ==
    [key |-> key, pc |-> "wait", aborted |-> FALSE, removed |-> "no",
     retries |-> 0, guard |-> FALSE, registry_guard |-> FALSE]

-----------------------------------------------------------------------------
(* Periodic task steps (the future spawned by spawn_sync_task).            *)

Generations == DOMAIN tasks

\* First poll, or wake-up from the interval sleep: a new Retry::spawn.
TaskPoll(g) ==
    /\ tasks[g].pc = "wait"
    /\ LET n == sync_fn_fetch(db, tasks[g]) IN
       /\ db' = n.db
       /\ tasks' = [tasks EXCEPT ![g] = n.task]
    /\ UNCHANGED <<last, netVars, registry, GENERATION, handlers, calls,
                   registered, requests>>

\* The network call completes; on success the results are committed and the
\* task sleeps for its interval.
TaskNet(g, ok, delay_left) ==
    /\ tasks[g].pc = "net"
    /\ LET r == sync_fn_commit(db, tasks[g].key, "ics1")
           n == IF ok /\ r.tag = "Ok"
                THEN [db |-> r.db, task |-> [tasks[g] EXCEPT !.pc = "wait"]]
                ELSE on_transient(db, tasks[g], delay_left)
       IN
       /\ db' = n.db
       /\ tasks' = [tasks EXCEPT ![g] = n.task]
    /\ UNCHANGED <<last, netVars, registry, GENERATION, handlers, calls,
                   registered, requests>>

\* What run_sync hands back on success (the feed built from the calendars).
SyncedContents == {"ics1", "ics2"}

\* The network call completes, with the delays of the strategy counted: a
\* transient failure uses one, and the count ends with the Retry.
TaskAttempt(g, ok, content) ==
    /\ tasks[g].pc = "net"
    /\ LET r == sync_fn_commit(db, tasks[g].key, content)
           n == IF ok /\ r.tag = "Ok"
                THEN [db |-> r.db, task |-> [tasks[g] EXCEPT !.pc = "wait"]]
                ELSE on_transient(db, tasks[g], strategy_has_delay(tasks[g]))
       IN
       /\ db' = n.db
       /\ tasks' = [tasks EXCEPT ![g] =
              [n.task EXCEPT !.retries = IF n.task.pc = "backoff"
                                         THEN tasks[g].retries + 1 ELSE 0]]
    /\ UNCHANGED <<last, netVars, registry, GENERATION, handlers, calls,
                   registered, requests>>

\* A backoff delay elapses and the closure runs again.
TaskRetry(g) ==
    /\ tasks[g].pc = "backoff"
    /\ LET n == sync_fn_fetch(db, tasks[g]) IN
       /\ db' = n.db
       /\ tasks' = [tasks EXCEPT ![g] = n.task]
    /\ UNCHANGED <<last, netVars, registry, GENERATION, handlers, calls,
                   registered, requests>>

\* After the loop: try_remove under the registry lock, and the task ends.
TaskTryRemove(g) ==
    /\ tasks[g].pc = "exit"
    /\ registry' = try_remove(registry, tasks[g].key, g)
    /\ tasks' = [tasks EXCEPT
                   ![g].pc = "done", ![g].aborted = FALSE,
                   ![g].registry_guard = FALSE,
                   ![g].removed =
                       IF tasks[g].key \notin DOMAIN registry THEN "absent"
                       ELSE IF registry[tasks[g].key] = g THEN "own"
                       ELSE "stale"]
    /\ UNCHANGED <<db, last, netVars, GENERATION, handlers, calls,
                   registered, requests>>

-----------------------------------------------------------------------------
(* API handlers (src/src/api/sources.rs, destinations.rs).  A handler      *)
(* first runs its store call under the db lock, releases it, and then      *)
(* calls register_* or cancel; register_* takes the registry lock twice,   *)
(* in cancel and again for the insert, and spawns in between.              *)

HandlerIds == 1..NumHandlers

SchedIntervals == {0, 5}

SchedCreateSourceInputs ==
    { [ValidSource EXCEPT !.sync_interval_secs = i] : i \in SchedIntervals }

SchedUpdateSourceInputs ==
    { [NoUpdateSource EXCEPT !.sync_interval_secs = Some(i)] :
        i \in SchedIntervals }

\* Destinations carry no uniqueness constraint, so several exist at once and
\* the registry holds several keys; their interval is fixed at 5.
SchedCreateDestinationInputs == { ValidDestination }

SchedUpdateDestinationInputs ==
    { [NoUpdateDestination EXCEPT !.sync_interval_secs = Some(5)] }

\* Handlers that are inside register_* and have not yet drawn a generation.
WillAllocate ==
    { h \in HandlerIds : /\ handlers[h].pc \in {"cancel", "after_cancel"}
                         /\ handlers[h].op = "register"
                         /\ handlers[h].interval > 0 }

\* A request that will spawn a task is accepted while generations remain.
CanAllocate(interval) ==
    interval > 0 => GENERATION + Cardinality(WillAllocate) < MaxTasks

\* Requests are interchangeable: a new one is served by the first idle handler.
Accepts(h) ==
    /\ requests < MaxRequests
    /\ handlers[h].pc = "idle"
    /\ \A x \in 1..(h - 1) : handlers[x].pc # "idle"

CallRegister_inside_the_db_block(h, key, row) ==
    /\ handlers' = [handlers EXCEPT ![h] =
           [IdleHandler EXCEPT !.pc = "cancel", !.op = "register", !.key = key,
                               !.interval = row.sync_interval_secs,
                               !.guard = TRUE]]
    /\ calls' = Append(calls, h)
    /\ requests' = requests + 1

\* The handler calls register_source / register_destination with the row it
\* read back after its store call; the block that held the db guard has
\* ended.
CallRegister(h, key, row) ==
    /\ handlers' = [handlers EXCEPT ![h] =
           [IdleHandler EXCEPT !.pc = "cancel", !.op = "register", !.key = key,
                               !.interval = row.sync_interval_secs]]
    /\ calls' = Append(calls, h)
    /\ requests' = requests + 1

\* The handler calls cancel(key) after a delete that removed the row.
CallCancel(h, key) ==
    /\ handlers' = [handlers EXCEPT ![h] =
           [IdleHandler EXCEPT !.pc = "cancel", !.op = "cancel", !.key = key]]
    /\ calls' = calls
    /\ requests' = requests + 1

\* A request rejected by the store (400, 404) never reaches the scheduler.
Reject(h) ==
    /\ handlers' = [handlers EXCEPT ![h] = IdleHandler]
    /\ calls' = calls
    /\ requests' = requests

HandleCreateSource(h, body) ==
    /\ Accepts(h)
    /\ db.seq.sources < MaxSources
    /\ CanAllocate(body.sync_interval_secs)
    /\ LET r == create_source(db, body) IN
       /\ db' = r.db
       /\ IF r.tag = "Ok"
          THEN CallRegister(h, AutoSyncKey("Source", r.val),
                            Unwrap(get_source(r.db, r.val)))
          ELSE Reject(h)
    /\ UNCHANGED <<last, netVars, registry, GENERATION, tasks, registered>>

HandleUpdateSource(h, id, body) ==
    /\ Accepts(h)
    /\ CanAllocate(Unwrap(body.sync_interval_secs))
    /\ LET r == update_source(db, id, body) IN
       /\ db' = r.db
       /\ IF r.tag = "Ok" /\ r.val
          THEN CallRegister(h, AutoSyncKey("Source", id),
                            Unwrap(get_source(r.db, id)))
          ELSE Reject(h)
    /\ UNCHANGED <<last, netVars, registry, GENERATION, tasks, registered>>

HandleDeleteSource(h, id) ==
    /\ Accepts(h)
    /\ LET r == delete_source(db, id) IN
       /\ db' = r.db
       /\ IF r.tag = "Ok" /\ r.val
          THEN CallCancel(h, AutoSyncKey("Source", id))
          ELSE Reject(h)
    /\ UNCHANGED <<last, netVars, registry, GENERATION, tasks, registered>>

HandleCreateDestination(h, body) ==
    /\ Accepts(h)
    /\ db.seq.destinations < MaxDestinations
    /\ CanAllocate(body.sync_interval_secs)
    /\ LET r == create_destination(db, body) IN
       /\ db' = r.db
       /\ IF r.tag = "Ok"
          THEN CallRegister(h, AutoSyncKey("Destination", r.val),
                            Unwrap(get_destination(r.db, r.val)))
          ELSE Reject(h)
    /\ UNCHANGED <<last, netVars, registry, GENERATION, tasks, registered>>

HandleUpdateDestination(h, id, body) ==
    /\ Accepts(h)
    /\ CanAllocate(Unwrap(body.sync_interval_secs))
    /\ LET r == update_destination(db, id, body) IN
       /\ db' = r.db
       /\ IF r.tag = "Ok" /\ r.val
          THEN CallRegister(h, AutoSyncKey("Destination", id),
                            Unwrap(get_destination(r.db, id)))
          ELSE Reject(h)
    /\ UNCHANGED <<last, netVars, registry, GENERATION, tasks, registered>>

HandleDeleteDestination(h, id) ==
    /\ Accepts(h)
    /\ LET r == delete_destination(db, id) IN
       /\ db' = r.db
       /\ IF r.tag = "Ok" /\ r.val
          THEN CallCancel(h, AutoSyncKey("Destination", id))
          ELSE Reject(h)
    /\ UNCHANGED <<last, netVars, registry, GENERATION, tasks, registered>>

\* POST /api/sources/{id}/sync, up to the call of run_sync: 404 when the
\* source is missing.
HandleSyncSource(h, id) ==
    /\ Accepts(h)
    /\ IF IsSome(get_source(db, id))
       THEN /\ handlers' = [handlers EXCEPT ![h] =
                   [IdleHandler EXCEPT !.pc = "run_sync", !.op = "sync",
                                       !.key = AutoSyncKey("Source", id)]]
            /\ calls' = calls
            /\ requests' = requests + 1
       ELSE Reject(h)
    /\ UNCHANGED <<db, last, netVars, registry, GENERATION, tasks, registered>>

sync_source_done_saving_first(conn, id, ok, content, msg) ==
    LET r1 == save_ics_data(conn, id, content)
        r2 == update_last_synced(r1.db, id)
    IN IF ok THEN update_sync_status(r2.db, id, "ok", None)
       ELSE update_sync_status(r1.db, id, "error", Some(msg))

\* sync_source after run_sync returned: on Ok the blob, last_synced and the
\* status are written (a failed write is logged and the next one still
\* runs); on Err only the status.
sync_source_done(conn, id, ok, content, msg) ==
    IF ok
    THEN LET r1 == save_ics_data(conn, id, content)
             r2 == update_last_synced(r1.db, id)
         IN update_sync_status(r2.db, id, "ok", None)
    ELSE update_sync_status(conn, id, "error", Some(msg))

HandlerSyncDone(h, ok, content) ==
    /\ handlers[h].pc = "run_sync"
    /\ db' = sync_source_done(db, handlers[h].key.id, ok, content,
                              "sync failed").db
    /\ handlers' = [handlers EXCEPT ![h] = IdleHandler]
    /\ UNCHANGED <<last, netVars, registry, GENERATION, tasks, calls,
                   registered, requests>>

\* cancel(registry, key): first statement of register_*, or the delete
\* handler's call.
HandlerCancel(h) ==
    /\ handlers[h].pc = "cancel"
    /\ LET c == cancel(registry, tasks, handlers[h].key) IN
       /\ registry' = c.registry
       /\ tasks' = c.tasks
    /\ handlers' = [handlers EXCEPT
                      ![h].pc = "after_cancel",
                      ![h].registry_guard = FALSE,
                      ![h].had = handlers[h].key \in DOMAIN registry]
    /\ UNCHANGED <<db, last, netVars, GENERATION, calls, registered, requests>>

\* Handlers that called register_* for the same key before h did and are
\* still inside it.
EarlierCalls(h) ==
    { calls[i] : i \in { j \in 1..Len(calls) :
          /\ \E k \in (j + 1)..Len(calls) : calls[k] = h
          /\ handlers[calls[j]].key = handlers[h].key } }

\* register_* returns in handler h having allocated `allocated` (None when it
\* spawned nothing).  It is the latest completed call for its key unless a
\* call made after it has already completed.
ReturnFromRegister(h, allocated) ==
    /\ handlers' = [x \in HandlerIds |->
          IF x = h THEN IdleHandler
          ELSE IF x \in EarlierCalls(h)
               THEN [handlers[x] EXCEPT !.superseded = TRUE]
               ELSE handlers[x]]
    /\ calls' = SelectSeq(calls, LAMBDA x : x # h)
    /\ registered' = IF handlers[h].superseded THEN registered
                     ELSE Put(registered, handlers[h].key, allocated)

\* The delete handler responds; register_* returns early when the interval
\* is not positive.
HandlerReturn(h) ==
    /\ handlers[h].pc = "after_cancel"
    /\ handlers[h].op = "cancel" \/ handlers[h].interval <= 0
    /\ IF handlers[h].op = "register"
       THEN ReturnFromRegister(h, None)
       ELSE /\ handlers' = [handlers EXCEPT ![h] = IdleHandler]
            /\ UNCHANGED <<calls, registered>>
    /\ UNCHANGED <<db, last, netVars, registry, GENERATION, tasks, requests>>

\* spawn_sync_task up to tokio::spawn: draw the generation, start the task.
HandlerSpawn(h) ==
    /\ handlers[h].pc = "after_cancel"
    /\ handlers[h].op = "register"
    /\ handlers[h].interval > 0
    /\ LET n == next_generation(GENERATION) IN
       /\ GENERATION' = n.counter
       /\ tasks' = Put(tasks, n.generation, NewTask(handlers[h].key))
       /\ handlers' = [handlers EXCEPT ![h].pc = "insert",
                                       ![h].generation = n.generation,
                                       ![h].had = FALSE]
    /\ UNCHANGED <<db, last, netVars, registry, calls, registered, requests>>

\* spawn_sync_task from registry.lock(): map.insert overwrites whatever entry
\* the key has, dropping that entry's AbortHandle without aborting.
HandlerInsert(h) ==
    /\ handlers[h].pc = "insert"
    /\ registry' = Put(registry, handlers[h].key, handlers[h].generation)
    /\ ReturnFromRegister(h, Some(handlers[h].generation))
    /\ UNCHANGED <<db, last, netVars, GENERATION, tasks, requests>>

-----------------------------------------------------------------------------
(* The store lock (AppState.db: Arc<Mutex<Connection>>), one acquisition   *)
(* at a time.  The steps above take a whole critical section as one step;  *)
(* here a sync closure and the handler of POST /api/destinations/{id}/sync *)
(* are followed from lock() to the end of the scope of the guard.  A task  *)
(* is suspended at "wait", "net" and "backoff", a handler at               *)
(* "run_reverse_sync"; everywhere else they run.                           *)

\* lock() returns: no other guard is alive.
db_lock_free ==
    /\ \A h \in HandlerIds : ~handlers[h].guard
    /\ \A g \in Generations : ~tasks[g].guard

park_ignores_abort(t) == t

\* The task's poll returns Pending at an .await: an abort() that came while
\* it was running takes effect.
park(t) ==
    IF t.aborted /\ t.pc \in {"wait", "net", "backoff"}
    THEN [t EXCEPT !.pc = "cancelled"] ELSE t

guard_outlives_scope(p) == p

\* The block or function body that declared `let db = ...lock()` ends: the
\* guard is dropped.
end_of_scope(p) == [p EXCEPT !.guard = FALSE]

\* The task runs up to a lock(): the closure's first line (first poll, after
\* the interval sleep, after a backoff delay), its line after the network
\* call, or the first line of handle_sync_error.
TaskLock(g) ==
    /\ tasks[g].pc \in {"wait", "backoff", "resumed", "failed"}
    /\ db_lock_free
    /\ tasks' = [tasks EXCEPT
                   ![g].guard = TRUE,
                   ![g].pc = IF tasks[g].pc = "resumed" THEN "commit"
                             ELSE IF tasks[g].pc = "failed"
                             THEN "handle_sync_error" ELSE "get"]
    /\ UNCHANGED <<db, last, netVars, registry, GENERATION, handlers, calls,
                   registered, requests>>

\* The block that reads the entity: it yields the credentials and ends, or
\* returns a permanent error, which ends the Retry.
TaskGet(g) ==
    /\ tasks[g].pc = "get"
    /\ tasks' = [tasks EXCEPT ![g] = park(end_of_scope(
                   [tasks[g] EXCEPT !.pc = IF IsSome(get_entity(db, tasks[g].key))
                                           THEN "net" ELSE "failed"]))]
    /\ UNCHANGED <<db, last, netVars, registry, GENERATION, handlers, calls,
                   registered, requests>>

\* run_sync / run_reverse_sync returns to the closure: Ok, or a transient
\* error that finds a delay left in the strategy or not.
TaskNetReturns(g, ok, delay_left) ==
    /\ tasks[g].pc = "net"
    /\ tasks' = [tasks EXCEPT ![g] = park(
                   [tasks[g] EXCEPT !.pc = IF ok THEN "resumed"
                                           ELSE IF delay_left THEN "backoff"
                                           ELSE "failed"])]
    /\ UNCHANGED <<db, last, netVars, registry, GENERATION, handlers, calls,
                   registered, requests>>

\* The writes after the network call, to the end of the closure.
TaskCommit(g, content) ==
    /\ tasks[g].pc = "commit"
    /\ LET r == sync_fn_commit(db, tasks[g].key, content) IN
       /\ db' = r.db
       /\ \E delay_left \in BOOLEAN :
             tasks' = [tasks EXCEPT ![g] = park(end_of_scope(
                         [tasks[g] EXCEPT !.pc = IF r.tag = "Ok" THEN "wait"
                                                 ELSE IF delay_left THEN "backoff"
                                                 ELSE "failed"]))]
    /\ UNCHANGED <<last, netVars, registry, GENERATION, handlers, calls,
                   registered, requests>>

\* handle_sync_error from its lock() to its return, and the loop's choice
\* between the interval sleep and break.
TaskHandleSyncError(g) ==
    /\ tasks[g].pc = "handle_sync_error"
    /\ LET n == on_retry_err(db, tasks[g]) IN
       /\ db' = n.db
       /\ tasks' = [tasks EXCEPT ![g] = park(end_of_scope(n.task))]
    /\ UNCHANGED <<last, netVars, registry, GENERATION, handlers, calls,
                   registered, requests>>

\* POST /api/destinations/{id}/sync: the handler's first lock().
SyncDestinationLock(h, id) ==
    /\ Accepts(h)
    /\ db_lock_free
    /\ handlers' = [handlers EXCEPT ![h] =
           [IdleHandler EXCEPT !.pc = "get_destination", !.op = "sync",
                               !.key = AutoSyncKey("Destination", id),
                               !.guard = TRUE]]
    /\ requests' = requests + 1
    /\ UNCHANGED <<db, last, netVars, registry, GENERATION, tasks, calls,
                   registered>>

\* The block that reads the destination: 404 when it is missing, else the
\* block ends and run_reverse_sync is awaited.
SyncDestinationGet(h) ==
    /\ handlers[h].pc = "get_destination"
    /\ handlers' = [handlers EXCEPT ![h] =
           IF IsSome(get_destination(db, handlers[h].key.id))
           THEN end_of_scope([handlers[h] EXCEPT !.pc = "run_reverse_sync"])
           ELSE IdleHandler]
    /\ UNCHANGED <<db, last, netVars, registry, GENERATION, tasks, calls,
                   registered, requests>>

\* run_reverse_sync returns and the arm of the match takes the lock.
SyncDestinationReturns(h, ok) ==
    /\ handlers[h].pc = "run_reverse_sync"
    /\ db_lock_free
    /\ handlers' = [handlers EXCEPT
                      ![h].guard = TRUE,
                      ![h].pc = IF ok THEN "status_ok" ELSE "status_error"]
    /\ UNCHANGED <<db, last, netVars, registry, GENERATION, tasks, calls,
                   registered, requests>>

\* The arm writes the status and returns the response.
SyncDestinationStatus(h) ==
    /\ handlers[h].pc \in {"status_ok", "status_error"}
    /\ db' = IF handlers[h].pc = "status_ok"
             THEN update_destination_sync_status(
                      db, handlers[h].key.id, "ok", None).db
             ELSE update_destination_sync_status(
                      db, handlers[h].key.id, "error", Some("sync failed")).db
    /\ handlers' = [handlers EXCEPT ![h] = IdleHandler]
    /\ UNCHANGED <<last, netVars, registry, GENERATION, tasks, calls,
                   registered, requests>>

-----------------------------------------------------------------------------
(* The registry lock (AutoSyncRegistry: Arc<Mutex<HashMap<..>>>).  cancel,  *)
(* try_remove and the tail of spawn_sync_task each take it with            *)
(* registry.lock() and hold it to the end of the function (or drop(map)). *)

\* registry.lock() returns: no other guard of the registry is alive.
registry_lock_free ==
    /\ \A h \in HandlerIds : ~handlers[h].registry_guard
    /\ \A g \in Generations : ~tasks[g].registry_guard

\* registry.lock() in cancel (first statement of register_*, or the delete
\* handler's call) and in spawn_sync_task after tokio::spawn.
HandlerLockRegistry(h) ==
    /\ handlers[h].pc \in {"cancel", "insert"}
    /\ registry_lock_free
    /\ handlers' = [handlers EXCEPT ![h].registry_guard = TRUE]
    /\ UNCHANGED <<db, last, netVars, registry, GENERATION, tasks, calls,
                   registered, requests>>

\* registry.lock() in try_remove, after the task left its loop.
TaskLockRegistry(g) ==
    /\ tasks[g].pc = "exit"
    /\ registry_lock_free
    /\ tasks' = [tasks EXCEPT ![g].registry_guard = TRUE]
    /\ UNCHANGED <<db, last, netVars, registry, GENERATION, handlers, calls,
                   registered, requests>>

\* register_all: the block that lists the rows under the db lock ends, then
\* register_destination is called for each row; followed here for stores
\* with one destination at most, where the loop has one turn or none.
RegisterAll(h) ==
    /\ Accepts(h)
    /\ db_lock_free
    /\ LET destinations == list_destinations(db) IN
       /\ Len(destinations) <= 1
       /\ \A i \in DOMAIN destinations :
             CanAllocate(destinations[i].row.sync_interval_secs)
       /\ IF destinations # <<>>
          THEN CallRegister(h, AutoSyncKey("Destination", destinations[1].id),
                            destinations[1].row)
          ELSE Reject(h)
    /\ UNCHANGED <<db, last, netVars, registry, GENERATION, tasks, registered>>

-----------------------------------------------------------------------------
(* Reverse sync (src/src/api/reverse_sync.rs).  The state keeps a VEVENT    *)
(* block as a record of its properties; block_text writes  the block out   *)
(* as the text the code handles: a sequence of physical lines, each a      *)
(* sequence of tokens (a line that begins with the token " " continues the *)
(* line before it).  The ICS text of a feed or of a calendar object is the *)
(* sequence of its VEVENT blocks.  A HashMap is a function; a list that    *)
(* the code sorts before comparing is compared as a multiset.              *)

VOLATILE_FIELDS == {"DTSTAMP", "SEQUENCE", "LAST-MODIFIED", "CREATED"}

VEvent(uid, summary, dtend, dtstamp) ==
    [UID |-> uid, SUMMARY |-> summary, DTEND |-> dtend, DTSTAMP |-> dtstamp]

\* A number as it is written in a property value.
Digits == <<"0", "1", "2", "3", "4", "5", "6", "7", "8", "9">>

\* DTEND of a record beyond the digits: a value that is no date ("TBD"),
\* and a block without a DTEND line.
Unreadable == Len(Digits)
NoEnd == Len(Digits) + 1

value_text(n) == IF n < Len(Digits) THEN Digits[n + 1] ELSE "TBD"

\* The block of a record as text.
block_text(v) ==
    << <<"BEGIN", ":", "VEVENT">> >>
    \o (IF v.UID = "" THEN <<>> ELSE << <<"UID", ":", v.UID>> >>)
    \o << <<"SUMMARY", ":", v.SUMMARY>> >>
    \o (IF v.DTEND = NoEnd THEN <<>>
        ELSE << <<"DTEND", ":", value_text(v.DTEND)>> >>)
    \o << <<"DTSTAMP", ":", Digits[v.DTSTAMP + 1]>>,
          <<"END", ":", "VEVENT">> >>

\* The logical lines of a text: a physical line that begins with a space
\* or a tab loses that character and is joined to the line before it.
RECURSIVE unfold_ics(_)
unfold_ics(text) ==
    IF text = <<>> THEN <<>>
    ELSE LET lines == unfold_ics(SubSeq(text, 1, Len(text) - 1))
             line == text[Len(text)]
         IN  IF line # <<>> /\ line[1] \in {" ", "\t"} /\ lines # <<>>
             THEN [lines EXCEPT ![Len(lines)] = @ \o Tail(line)]
             ELSE Append(lines, line)

\* A list after sort(): equal lists are those with equal multisets.
sort(list) ==
    [v \in {list[i] : i \in DOMAIN list} |->
        Cardinality({i \in DOMAIN list : list[i] = v})]

normalize_vevent_as_folded(vevent_data) ==
    LET trimmed == [i \in DOMAIN vevent_data |-> trim(vevent_data[i])]
    IN  sort(SelectSeq(trimmed, LAMBDA line :
            /\ line # <<>>
            /\ ~ \E field \in VOLATILE_FIELDS :
                    /\ line[1] = field
                    /\ Len(line) > 1 /\ line[2] \in {":", ";"}))

\* The trimmed logical lines of a block without the empty and the volatile
\* ones, in sorted order.
normalize_vevent(vevent_data) ==
    LET unfolded == unfold_ics(vevent_data)
        trimmed == [i \in DOMAIN unfolded |-> trim(unfolded[i])]
    IN  sort(SelectSeq(trimmed, LAMBDA line :
            /\ line # <<>>
            /\ ~ \E field \in VOLATILE_FIELDS :
                    /\ line[1] = field
                    /\ Len(line) > 1 /\ line[2] \in {":", ";"}))

events_equal_verbatim(existing, incoming) ==
    Len(existing) = Len(incoming) /\ sort(existing) = sort(incoming)

events_equal(existing, incoming) ==
    /\ Len(existing) = Len(incoming)
    /\ sort([i \in DOMAIN existing |-> normalize_vevent(existing[i])]) =
       sort([i \in DOMAIN incoming |-> normalize_vevent(incoming[i])])

\* A date or date-time value as a point on the clock's scale; None for a
\* value of any other shape.  (Time zones are not modelled.)
parse_ics_value(value) ==
    IF \E d \in DOMAIN Digits : Digits[d] = value
    THEN Some((CHOOSE d \in DOMAIN Digits : Digits[d] = value) - 1)
    ELSE None

has_colon(line) == \E k \in DOMAIN line : line[k] = ":"

\* &trimmed[colon_pos + 1..]: what follows the first ":" of the line.
value_of(line) ==
    LET colon_pos == CHOOSE k \in DOMAIN line :
                        /\ line[k] = ":"
                        /\ \A j \in 1..(k - 1) : line[j] # ":"
    IN  IF colon_pos < Len(line) THEN line[colon_pos + 1] ELSE ""

\* The parsed values of the lines named `name`, in order (lines without
\* ":" are passed over).
parsed_values(lines, name) ==
    LET named == SelectSeq(lines, LAMBDA line :
                     line # <<>> /\ line[1] = name /\ has_colon(line))
    IN  [i \in DOMAIN named |-> parse_ics_value(value_of(named[i]))]

\* The value the loop leaves in dtend / dtstart: that of the last such line.
last_parsed(values) == IF values = <<>> THEN None ELSE values[Len(values)]

\* dtend.or(dtstart) over the trimmed logical lines of the block.
event_end_parsed(vevent_text) ==
    LET unfolded == unfold_ics(vevent_text)
        lines == [i \in DOMAIN unfolded |-> trim(unfolded[i])]
        dtend == last_parsed(parsed_values(lines, "DTEND"))
    IN  IF IsSome(dtend) THEN dtend
        ELSE last_parsed(parsed_values(lines, "DTSTART"))

is_event_in_future_fail_closed(vevent_text, t) ==
    LET end == event_end_parsed(block_text(vevent_text))
    IN  \E i \in DOMAIN end : end[i] > t

\* The effective end of the block against the clock (Some(end) => end > t);
\* a block whose end cannot be read (None) is in the future.
is_event_in_future(vevent_text, t) ==
    LET end == event_end_parsed(block_text(vevent_text))
    IN  \A i \in DOMAIN end : end[i] > t

\* UID -> the blocks carrying it, in source order; blocks without a UID are
\* dropped.
extract_events(ics_text) ==
    [uid \in {ics_text[i].UID : i \in DOMAIN ics_text} \ {""} |->
        SelectSeq(ics_text, LAMBDA v : v.UID = uid)]

\* REPORT calendar-query on the collection: the calendar-data of each object.
RECURSIVE fetch_events(_, _)
fetch_events(cal, hrefs) ==
    IF hrefs = {} THEN <<>>
    ELSE LET h == CHOOSE x \in hrefs : TRUE IN
         <<cal[h]>> \o fetch_events(cal, hrefs \ {h})

RECURSIVE merge_existing(_)
merge_existing(existing_data) ==
    IF existing_data = <<>> THEN <<>>
    ELSE LET m == merge_existing(Tail(existing_data))
             e == extract_events(Head(existing_data))
         IN [uid \in DOMAIN e \cup DOMAIN m |->
                (IF uid \in DOMAIN e THEN e[uid] ELSE <<>>) \o
                (IF uid \in DOMAIN m THEN m[uid] ELSE <<>>)]

\* UID -> every block of that UID held by any object of the calendar.
fetch_existing_events(cal) == merge_existing(fetch_events(cal, DOMAIN cal))

calendar_base == "https://dav/cal/"

\* format!("{}{}.ics", calendar_base, uid)
event_url(uid) == <<calendar_base, uid, ".ics">>

any_future(vevents, t) ==
    \E i \in DOMAIN vevents : is_event_in_future(vevents[i], t)

\* The UID groups run_reverse_sync keeps: all, or those with a future block.
filter_future(groups, sync_all, t) ==
    IF sync_all THEN groups
    ELSE [uid \in {u \in DOMAIN groups : any_future(groups[u], t)} |-> groups[uid]]

feed_guard_removed(extracted) == FALSE

\* The feed-empty guard.
feed_is_empty(extracted) == DOMAIN extracted = {}

deletion_candidates_unfiltered(existing, sync_all, t) == DOMAIN existing

deletion_candidates(existing, sync_all, t) ==
    DOMAIN filter_future(existing, sync_all, t)

orphans_despite_keep_local(existing, all_remote_uids, sync_all, keep_local, t) ==
    deletion_candidates(existing, sync_all, t) \ all_remote_uids

\* The UIDs the deletion step sends a DELETE for.
orphans(existing, all_remote_uids, sync_all, keep_local, t) ==
    IF keep_local THEN {}
    ELSE deletion_candidates(existing, sync_all, t) \ all_remote_uids

deletion_after_failed_uploads(errors) == FALSE

\* if errors > 0 { bail!(..) }
uploads_failed(errors) == errors > 0

Stats(uploaded, skipped, deleted, total) ==
    [uploaded |-> uploaded, skipped |-> skipped, deleted |-> deleted,
     total |-> total]

\* The answer to DELETE <base><uid>.ics: what `refused` says for the UID (a
\* status, or 0 for a request that got no response), else 204 when the
\* object is there and 404 when it is not.
delete_status(cal, uid, refused) ==
    IF uid \in DOMAIN refused THEN refused[uid]
    ELSE IF event_url(uid) \in DOMAIN cal THEN 204 ELSE 404

is_deleted_whatever_the_answer(status) == TRUE

\* Ok(res) if res.status().is_success() || res.status().as_u16() == 404
is_deleted(status) == status \in 200..299 \/ status = 404

not_skipped_without_continue(uids, skipped) == uids

\* skipped += 1; continue: a group counted as skipped is not PUT.
not_skipped(uids, skipped) == uids \ skipped

\* The deletion loop over the orphans `gone` on the calendar `stored`: every
\* DELETE is sent, the deleted counter grows for the answers is_deleted
\* accepts, and the calendar loses the objects whose DELETE was answered 204.
delete_orphans(stored, gone, refused) ==
    [deleted |-> Cardinality({ uid \in gone :
                     is_deleted(delete_status(stored, uid, refused)) }),
     deletes |-> {event_url(uid) : uid \in gone},
     caldav |-> [h \in { h \in DOMAIN stored :
                           \A uid \in gone :
                             h = event_url(uid) =>
                               delete_status(stored, uid, refused) # 204 } |->
                   stored[h]]]

\* One run against the calendar cal at time t; failing holds the UIDs whose
\* PUT the server answers with an error, refused the answers to the DELETEs
\* that fail.  A PUT that succeeds stores the body at its URL; a DELETE
\* answered 204 removes the object at its URL.
run_reverse_sync(ics_text, cal, sync_all, keep_local, t, failing, refused) ==
    LET extracted == extract_events(ics_text) IN
    IF feed_is_empty(extracted)
    THEN [tag |-> "Ok", val |-> Stats(0, 0, 0, 0), puts |-> {}, deletes |-> {},
          caldav |-> cal]
    ELSE
    LET all_remote_uids == DOMAIN extracted
        events == filter_future(extracted, sync_all, t)
        existing == fetch_existing_events(cal)
        skipped == { uid \in DOMAIN events :
                       /\ uid \in DOMAIN existing
                       /\ events_equal(
                            [i \in DOMAIN existing[uid] |->
                                block_text(existing[uid][i])],
                            [i \in DOMAIN events[uid] |->
                                block_text(events[uid][i])]) }
        put == not_skipped(DOMAIN events, skipped)
        uploaded == put \ failing
        errors == Cardinality(put \cap failing)
        stored == [h \in DOMAIN cal \cup {event_url(uid) : uid \in uploaded} |->
                     IF \E uid \in uploaded : h = event_url(uid)
                     THEN events[CHOOSE uid \in uploaded : h = event_url(uid)]
                     ELSE cal[h]]
        gone == orphans(existing, all_remote_uids, sync_all, keep_local, t)
    IN
    IF uploads_failed(errors)
    THEN [tag |-> "Err",
          val |-> <<"Uploaded", Cardinality(uploaded), "events but", errors,
                    "failed">>,
          puts |-> {event_url(uid) : uid \in put}, deletes |-> {},
          caldav |-> stored]
    ELSE CHOOSE r \in
           { [tag |-> "Ok",
              val |-> Stats(Cardinality(uploaded), Cardinality(skipped),
                            d.deleted, Cardinality(DOMAIN events)),
              puts |-> {event_url(uid) : uid \in put},
              deletes |-> d.deletes,
              caldav |-> d.caldav] :
             d \in {delete_orphans(c, g, refused) : c \in {stored}, g \in {gone}} } :
           TRUE

NoRun == [ran |-> FALSE]

Uids == {"u1", "u2", "u3"}

\* u1 ends at 1 (in the future until the clock reaches 1), u2 at 9; the
\* third block has no UID line.
FeedBlocks ==
    { VEvent("u1", "a", 1, 1), VEvent("u2", "a", 9, 1), VEvent("", "a", 9, 1) }

\* What the publisher may turn the feed into: the empty text, or the
\* current text with one more block.
FeedEdits ==
    {<<>>} \cup { Append(feed, v) : v \in IF Len(feed) < MaxFeedLen
                                          THEN FeedBlocks ELSE {} }

\* Objects written by other CalDAV clients, under the name this program
\* would use or under a name of the client's own: u1 re-exported (DTSTAMP 2)
\* or edited (summary "b"), u2, and u3, which the feed never carries.
ClientObjects ==
    { <<event_url("u1"), <<VEvent("u1", "a", 1, 2)>> >>,
      <<event_url("u2"), <<VEvent("u2", "a", 9, 1)>> >>,
      <<event_url("7f3a"), <<VEvent("u1", "b", 1, 1)>> >>,
      <<event_url("7f3a"), <<VEvent("u3", "a", 9, 1)>> >> }

\* The publisher of the feed replaces its content.
FeedChanges(ics_text) ==
    /\ feed' = ics_text
    /\ reverse' = NoRun
    /\ UNCHANGED <<db, last, schedVars, caldav, now, compared, store_file, response>>

\* Another client stores an object on the calendar.
ClientPut(href, data) ==
    /\ caldav' = Put(caldav, href, data)
    /\ reverse' = NoRun
    /\ UNCHANGED <<db, last, schedVars, feed, now, compared, store_file, response>>

\* Time passes.
ClockTick ==
    /\ now < MaxNow
    /\ now' = now + 1
    /\ UNCHANGED <<db, last, schedVars, feed, caldav, reverse, compared, store_file, response>>

\* One call of run_reverse_sync, from the scheduler or from POST
\* /api/destinations/{id}/sync; `again` tells whether it repeats the previous
\* call (same arguments, nothing changed in between but the clock) and that
\* call succeeded.
RunReverseSync(sync_all, keep_local, failing, refused) ==
    /\ LET r == run_reverse_sync(feed, caldav, sync_all, keep_local, now,
                                 failing, refused)
       IN
       /\ caldav' = r.caldav
       /\ reverse' = [ran |-> TRUE, tag |-> r.tag, val |-> r.val,
                      puts |-> r.puts, deletes |-> r.deletes,
                      sync_all |-> sync_all, keep_local |-> keep_local,
                      failing |-> failing, refused |-> refused,
                      before |-> caldav, at |-> now,
                      again |-> /\ reverse.ran
                                /\ reverse.tag = "Ok"
                                /\ reverse.sync_all = sync_all
                                /\ reverse.keep_local = keep_local]
    /\ UNCHANGED <<db, last, schedVars, feed, now, compared, store_file, response>>

(* The comparison on its own.  `compared` holds the group the calendar has *)
(* (existing) and a group derived from it (incoming), each block as its    *)
(* logical lines with the place where a line is folded (at = 0: not        *)
(* folded); `semantic` tells whether incoming was changed in more than its *)
(* presentation.  events_equal receives the physical lines.                *)

NoComparison == [existing |-> <<>>, incoming |-> <<>>, semantic |-> FALSE]

Line(text) == [text |-> text, at |-> 0]

\* RFC 5545 3.1: a long line is split and the second part begins with a
\* space.
fold_line(l) ==
    IF l.at = 0 THEN <<l.text>>
    ELSE <<SubSeq(l.text, 1, l.at),
           <<" ">> \o SubSeq(l.text, l.at + 1, Len(l.text))>>

RECURSIVE fold_ics(_)
fold_ics(block) ==
    IF block = <<>> THEN <<>>
    ELSE fold_line(Head(block)) \o fold_ics(Tail(block))

\* The group as handed to events_equal: one text per block.
physical(group) == [b \in DOMAIN group |-> fold_ics(group[b])]

\* The property name of a line: what precedes the first ":" or ";".
property_name(text) ==
    LET ends == {k \in DOMAIN text : text[k] \in {":", ";"}}
    IN  IF ends = {} THEN text
        ELSE SubSeq(text, 1, (CHOOSE k \in ends : \A j \in ends : k <= j) - 1)

is_volatile_line(l) == \E field \in VOLATILE_FIELDS : property_name(l.text) = <<field>>

MasterBlock ==
    << Line(<<"BEGIN", ":", "VEVENT">>), Line(<<"UID", ":", "u1">>),
       Line(<<"SUMMARY", ":", "a", " ", "b">>), Line(<<"DTSTAMP", ":", "1">>),
       Line(<<"END", ":", "VEVENT">>) >>

OverrideBlock ==
    << Line(<<"BEGIN", ":", "VEVENT">>), Line(<<"UID", ":", "u1">>),
       Line(<<"RECURRENCE-ID", ":", "1">>), Line(<<"END", ":", "VEVENT">>) >>

ComparedGroups == { <<MasterBlock>>, <<MasterBlock, OverrideBlock>> }

VolatileLines == { Line(<<"SEQUENCE", ";", "3">>) }

\* DTSTAMPX is not DTSTAMP.
OtherLines == { Line(<<"SUMMARY", ":", "b">>), Line(<<"DTSTAMP", "X", ":", "1">>) }

\* A block grows no longer than the longest one of the start.
MaxBlockLines == Len(MasterBlock)
MaxFolded == 1

Swap(seq, i) == [seq EXCEPT ![i] = seq[i + 1], ![i + 1] = seq[i]]

\* A comparison starts: incoming is the existing group.
Compare(group) ==
    /\ compared' = [existing |-> group, incoming |-> group, semantic |-> FALSE]
    /\ UNCHANGED <<db, last, schedVars, feed, caldav, now, reverse, response, store_file>>

Present(incoming, semantic) ==
    /\ compared.existing # <<>>
    /\ compared' = [compared EXCEPT !.incoming = incoming, !.semantic = semantic]
    /\ UNCHANGED <<db, last, schedVars, feed, caldav, now, reverse, response, store_file>>

\* Two neighbouring property lines of a block change places.
ReorderLines(b, i) ==
    /\ b \in DOMAIN compared.incoming
    /\ i > 1 /\ i + 1 < Len(compared.incoming[b])
    /\ Present([compared.incoming EXCEPT ![b] = Swap(@, i)], compared.semantic)

\* Two neighbouring blocks change places.
ReorderBlocks(b) ==
    /\ b \in DOMAIN compared.incoming /\ b + 1 \in DOMAIN compared.incoming
    /\ Present(Swap(compared.incoming, b), compared.semantic)

\* A line is folded elsewhere, or no longer.
Refold(b, i, at) ==
    /\ b \in DOMAIN compared.incoming
    /\ i \in DOMAIN compared.incoming[b]
    /\ at \in 0..(Len(compared.incoming[b][i].text) - 1)
    /\ LET incoming == [compared.incoming EXCEPT ![b][i].at = at]
       IN  /\ Cardinality({ <<c, j>> \in (DOMAIN incoming) \X (1..MaxBlockLines) :
                              /\ j \in DOMAIN incoming[c]
                              /\ incoming[c][j].at # 0 }) <= MaxFolded
           /\ Present(incoming, compared.semantic)

\* A volatile line is added before END, changed or removed.
VolatileEdit(b, i, l) ==
    /\ b \in DOMAIN compared.incoming
    /\ LET block == compared.incoming[b] IN
       \/ /\ i = Len(block) /\ Len(block) < MaxBlockLines
          /\ Present([compared.incoming EXCEPT ![b] =
                        SubSeq(block, 1, i - 1) \o <<l>> \o <<block[i]>>],
                     compared.semantic)
       \/ /\ i \in DOMAIN block /\ is_volatile_line(block[i]) /\ block[i] # l
          /\ Present([compared.incoming EXCEPT ![b][i] = l], compared.semantic)
       \/ /\ i \in DOMAIN block /\ is_volatile_line(block[i])
          /\ Present([compared.incoming EXCEPT ![b] =
                        SubSeq(block, 1, i - 1) \o SubSeq(block, i + 1, Len(block))],
                     compared.semantic)

\* One property line that is not volatile gets another content.
ChangeLine(b, i, l) ==
    /\ ~compared.semantic
    /\ b \in DOMAIN compared.incoming
    /\ i \in DOMAIN compared.incoming[b]
    /\ i > 1 /\ i < Len(compared.incoming[b])
    /\ ~is_volatile_line(compared.incoming[b][i])
    /\ compared.incoming[b][i].text # l.text
    /\ Present([compared.incoming EXCEPT ![b][i] = l], TRUE)

\* The incoming group gets one block more or one block less.
ChangeCardinality ==
    /\ ~compared.semantic
    /\ \/ /\ Len(compared.incoming) = 1
          /\ Present(Append(compared.incoming, OverrideBlock), TRUE)
       \/ Present(SubSeq(compared.incoming, 1, Len(compared.incoming) - 1), TRUE)

-----------------------------------------------------------------------------
(* HTTP: the ICS routes (src/src/server/route_builder.rs) and the handlers *)
(* of src/src/api that answer within one critical section of the store.    *)
(* A response is its status code and its body (the ICS text, or the        *)
(* message of the JSON body).                                              *)

Respond(status, body) == [status |-> status, body |-> body]

ics_response(result) ==
    IF IsSome(result) THEN Respond(200, Unwrap(result))
    ELSE Respond(404, "ICS not found")

\* GET /ics/public/{*path}: every response the handler can give.
serve_public_ics(conn, path) ==
    IF contains_dotdot(path) \/ starts_with_slash(path)
    THEN { Respond(400, "Invalid path") }
    ELSE { ics_response(result) : result \in get_ics_data_by_public_path(conn, path) }

Answer(handler, request, r) ==
    response' = [handler |-> handler, request |-> request, status |-> r.status,
                 body |-> r.body]

ServePublicIcs(path) ==
    /\ \E r \in serve_public_ics(db, path) :
          Answer("serve_public_ics", <<path>>, r)
    /\ UNCHANGED <<db, last, schedVars, feed, caldav, now, reverse, compared, store_file>>

\* The question the authentication layer asks before it lets a request for
\* /ics/{path} pass without credentials.
IsPublicStandardIcs(ics_path) ==
    /\ Answer("is_public_standard_ics", <<ics_path>>,
              Respond(0, is_public_standard_ics(db, ics_path)))
    /\ UNCHANGED <<db, last, schedVars, feed, caldav, now, reverse, compared, store_file>>

\* Sources with and without public_ics and a custom public path, aliases
\* public and private, and the paths requested.
ServeCreateSourceInputs ==
    { [ValidSource EXCEPT !.ics_path = p, !.public_ics = b] :
        p \in {<<"a">>, <<"b">>}, b \in BOOLEAN }
    \cup { [ValidSource EXCEPT !.ics_path = p, !.public_ics = TRUE,
                               !.public_ics_path = Some(<<"c">>)] :
             p \in {<<"a">>, <<"b">>} }

ServeUpdateSourceInputs ==
    { [NoUpdateSource EXCEPT !.public_ics = Some(FALSE)],
      [NoUpdateSource EXCEPT !.public_ics = Some(TRUE)],
      [NoUpdateSource EXCEPT !.public_ics = Some(TRUE),
                             !.public_ics_path = Some(<<"c">>)] }

ServeCreateSourcePathInputs ==
    { [path |-> p, is_public |-> b] : p \in {<<"c">>, <<"d">>}, b \in BOOLEAN }

ServeUpdateSourcePathInputs ==
    { [path |-> None, is_public |-> Some(b)] : b \in BOOLEAN }

\* The content a sync of the source stores: one text per source.
ServedContent(id) == IF id = 1 THEN "ics1" ELSE "ics2"

ServeRequestPaths ==
    { <<"a">>, <<"c">>, <<"d">>, <<"/", "c">>, <<"c", "/", "..", "/", "d">> }

(* The handlers of src/src/api/source_paths.rs.  Each holds the store lock  *)
(* from its first line to its last; it gives the response and the store it *)
(* leaves.                                                                 *)

Reply(status, body, conn) == [status |-> status, body |-> body, db |-> conn]

\* POST /api/sources/{source_id}/paths
api_create_source_path(conn, source_id, body) ==
    LET r == create_source_path(conn, source_id, body) IN
    IF r.tag = "Ok" THEN Reply(201, "Path created", r.db)
    ELSE Reply(400, r.val, r.db)

owner_not_compared(conn, source_id, path_id) == FALSE

\* Ok(Some(sp)) if sp.source_id != source_id
owned_by_another(conn, source_id, path_id) ==
    /\ IsSome(get_source_path(conn, path_id))
    /\ Unwrap(get_source_path(conn, path_id)).source_id # source_id

\* PUT /api/sources/{source_id}/paths/{path_id}
api_update_source_path(conn, source_id, path_id, body) ==
    IF owned_by_another(conn, source_id, path_id)
    THEN Reply(404, "Path not found", conn)
    ELSE LET r == update_source_path(conn, path_id, body) IN
         IF r.tag = "Err" THEN Reply(400, r.val, r.db)
         ELSE IF r.val THEN Reply(200, "Path updated", r.db)
         ELSE Reply(404, "Path not found", r.db)

\* DELETE /api/sources/{source_id}/paths/{path_id}
api_delete_source_path(conn, source_id, path_id) ==
    IF owned_by_another(conn, source_id, path_id)
    THEN Reply(404, "Path not found", conn)
    ELSE LET r == delete_source_path(conn, path_id) IN
         IF r.tag = "Err" THEN Reply(500, r.val, r.db)
         ELSE IF r.val THEN Reply(200, "Path deleted", r.db)
         ELSE Reply(404, "Path not found", r.db)

Handle(handler, request, r) ==
    /\ db' = r.db
    /\ Answer(handler, request, r)
    /\ UNCHANGED <<last, schedVars, feed, caldav, now, reverse, compared, store_file>>

HandleCreateSourcePath(source_id, body) ==
    /\ db.seq.source_paths < MaxSourcePaths
    /\ Handle("create_source_path", <<source_id, body>>,
              api_create_source_path(db, source_id, body))

HandleUpdateSourcePath(source_id, path_id, body) ==
    Handle("update_source_path", <<source_id, path_id, body>>,
           api_update_source_path(db, source_id, path_id, body))

HandleDeleteSourcePath(source_id, path_id) ==
    Handle("delete_source_path", <<source_id, path_id>>,
           api_delete_source_path(db, source_id, path_id))

\* Aliases that are accepted, collide with an ics_path, are blank or begin
\* with "/"; updates of the path and of is_public.
ApiCreateSourcePathInputs ==
    { [path |-> p, is_public |-> FALSE] :
        p \in {<<"c">>, <<"a">>, <<" ">>, <<"/", "c">>} }

ApiUpdateSourcePathInputs ==
    { [path |-> None, is_public |-> Some(TRUE)],
      [path |-> Some(<<"d">>), is_public |-> Some(TRUE)],
      [path |-> Some(<<"d">>), is_public |-> None],
      [path |-> Some(<<"a">>), is_public |-> None],
      [path |-> Some(<<"d", "/", "..">>), is_public |-> Some(TRUE)] }

-----------------------------------------------------------------------------

(* init_db on a store file (src/src/db.rs:60-125).  A file maps a table   *)
(* name to its columns and rows; of the columns those are kept that a      *)
(* migration step adds or reads, and a row maps each such column to its    *)
(* value.  A statement is a record; it answers with the file it leaves and *)
(* whether it failed.                                                      *)

NULL == 0 - 1

NoTables == <<>>

Table(cols, rows) == [cols |-> cols, rows |-> rows]

\* CREATE TABLE IF NOT EXISTS t (cols ..)
create_table(t, cols) == [kind |-> "create_table", table |-> t, cols |-> cols]
\* ALTER TABLE t ADD COLUMN col .. DEFAULT value
add_column(t, col, value) ==
    [kind |-> "add_column", table |-> t, col |-> col, value |-> value]
\* UPDATE t SET sync_interval_secs = sync_interval_minutes * 60
\*   WHERE sync_interval_minutes IS NOT NULL
backfill(t) == [kind |-> "backfill", table |-> t]

execute(file, stmt) ==
    CASE stmt.kind = "create_table" ->
           IF stmt.table \in DOMAIN file THEN [file |-> file, ok |-> TRUE]
           ELSE [file |-> Put(file, stmt.table, Table(stmt.cols, <<>>)),
                 ok |-> TRUE]
      [] stmt.kind = "add_column" ->
           IF stmt.table \notin DOMAIN file
              \/ stmt.col \in file[stmt.table].cols
           THEN [file |-> file, ok |-> FALSE]
           ELSE LET tbl == file[stmt.table] IN
                [file |-> Put(file, stmt.table,
                     Table(tbl.cols \cup {stmt.col},
                           [id \in DOMAIN tbl.rows |->
                               Put(tbl.rows[id], stmt.col, stmt.value)])),
                 ok |-> TRUE]
      [] stmt.kind = "backfill" ->
           IF stmt.table \notin DOMAIN file
              \/ ~ {"sync_interval_secs", "sync_interval_minutes"}
                      \subseteq file[stmt.table].cols
           THEN [file |-> file, ok |-> FALSE]
           ELSE LET tbl == file[stmt.table] IN
                [file |-> Put(file, stmt.table,
                     Table(tbl.cols,
                           [id \in DOMAIN tbl.rows |->
                               IF tbl.rows[id]["sync_interval_minutes"] # NULL
                               THEN Put(tbl.rows[id], "sync_interval_secs",
                                        tbl.rows[id]["sync_interval_minutes"] * 60)
                               ELSE tbl.rows[id]])),
                 ok |-> TRUE]

RECURSIVE execute_batch_to_the_end(_, _)
execute_batch_to_the_end(file, sql) ==
    IF sql = <<>> THEN [file |-> file, ok |-> TRUE]
    ELSE LET r == execute(file, Head(sql))
             rest == execute_batch_to_the_end(r.file, Tail(sql))
         IN  [file |-> rest.file, ok |-> r.ok /\ rest.ok]

\* Connection::execute_batch: the statements in order, up to the first one
\* that fails; what the earlier ones wrote stays.
RECURSIVE execute_batch(_, _)
execute_batch(file, sql) ==
    IF sql = <<>> THEN [file |-> file, ok |-> TRUE]
    ELSE LET r == execute(file, Head(sql)) IN
         IF r.ok THEN execute_batch(r.file, Tail(sql)) ELSE r

\* The batches of init_db in order; `must` marks those closed with `?`.
init_db_batches ==
    << [must |-> TRUE, sql |->
          << create_table("sources",
                 {"sync_interval_secs", "last_sync_status", "last_sync_error"}),
             create_table("ics_data", {}),
             create_table("destinations", {"sync_interval_secs"}) >>],
       [must |-> FALSE, sql |->
          << add_column("sources", "last_sync_status", NULL),
             add_column("sources", "last_sync_error", NULL) >>],
       [must |-> FALSE, sql |->
          << add_column("sources", "sync_interval_secs", 3600),
             backfill("sources"),
             add_column("destinations", "sync_interval_secs", 3600),
             backfill("destinations") >>],
       [must |-> FALSE, sql |-> << add_column("sources", "public_ics", 0) >>],
       [must |-> FALSE, sql |->
          << add_column("sources", "public_ics_path", NULL) >>],
       [must |-> TRUE, sql |-> << create_table("source_paths", {}) >>] >>

RECURSIVE run_batches(_, _)
run_batches(file, batches) ==
    IF batches = <<>> THEN [file |-> file, ok |-> TRUE]
    ELSE LET r == execute_batch(file, Head(batches).sql) IN
         IF ~r.ok /\ Head(batches).must THEN r
         ELSE run_batches(r.file, Tail(batches))

init_db(file) == run_batches(file, init_db_batches)

\* Store files written by earlier versions of the program: the sources
\* table with any of the later columns missing and with or without the
\* legacy sync_interval_minutes, one row in it; the destinations table
\* absent, or with either interval column or both.
LaterColumns ==
    {"last_sync_status", "last_sync_error", "sync_interval_secs",
     "public_ics", "public_ics_path"}

LegacyRow(cols, minutes) ==
    [c \in cols |-> IF c = "sync_interval_minutes" THEN minutes
                    ELSE IF c = "sync_interval_secs" THEN 3600
                    ELSE IF c = "public_ics" THEN 0 ELSE NULL]

LegacyTables(later) ==
    { Table(cols, [id \in {1} |-> LegacyRow(cols, minutes)]) :
        cols \in { x \cup y : x \in SUBSET later,
                              y \in SUBSET {"sync_interval_minutes"} },
        minutes \in {NULL, 1} }

LegacyFiles ==
    { [t \in {"sources"} |-> src] : src \in LegacyTables(LaterColumns) }
    \cup { [t \in {"sources", "destinations"} |->
               IF t = "sources" THEN src ELSE dst] :
             src \in LegacyTables({"sync_interval_secs"}),
             dst \in LegacyTables({"sync_interval_secs"}) }

\* The server starts (bin/server.rs:23): init_db on the file it finds.
Start ==
    /\ store_file' = init_db(store_file).file
    /\ UNCHANGED <<db, last, schedVars, feed, caldav, now, reverse, compared,
                   response>>

\* The file is replaced by one an earlier version wrote, and the server
\* starts on it.
StartOn(file) ==
    /\ store_file' = init_db(file).file
    /\ UNCHANGED <<db, last, schedVars, feed, caldav, now, reverse, compared,
                   response>>

\* An update of a row's sync_interval_secs through the API.
EditInterval(t, id, secs) ==
    /\ t \in DOMAIN store_file
    /\ id \in DOMAIN store_file[t].rows
    /\ "sync_interval_secs" \in store_file[t].cols
    /\ store_file' = [store_file EXCEPT ![t].rows[id]["sync_interval_secs"] = secs]
    /\ UNCHANGED <<db, last, schedVars, feed, caldav, now, reverse, compared,
                   response>>

-----------------------------------------------------------------------------

Init ==
    /\ db = EmptyDb
    /\ last = NoCall
    /\ registry = <<>>
    /\ GENERATION = 0
    /\ tasks = <<>>
    /\ handlers = [h \in 1..NumHandlers |-> IdleHandler]
    /\ calls = <<>>
    /\ registered = <<>>
    /\ requests = 0
    /\ feed = <<>>
    /\ caldav = <<>>
    /\ now = 0
    /\ reverse = NoRun
    /\ compared = NoComparison
    /\ response = NoResponse
    /\ store_file = init_db(NoTables).file

\* Store calls that exercise the path namespace.
NextPaths ==
    \/ \E src \in PathCreateSourceInputs : CreateSource(src)
    \/ \E id \in SourceIds, upd \in PathUpdateSourceInputs : UpdateSource(id, upd)
    \/ \E id \in SourceIds : DeleteSource(id)
    \/ \E sid \in SourceIds, body \in PathCreateSourcePathInputs :
          CreateSourcePath(sid, body)
    \/ \E id \in SourcePathIds, upd \in PathUpdateSourcePathInputs :
          UpdateSourcePath(id, upd)
    \/ \E id \in SourcePathIds : DeleteSourcePath(id)

SpecPaths == Init /\ [][NextPaths]_vars

\* Store calls that exercise secrets: passwords on create and update.
NextSecrets ==
    \/ \E src \in RowCreateSourceInputs : CreateSource(src)
    \/ \E id \in SourceIds, upd \in RowUpdateSourceInputs : UpdateSource(id, upd)
    \/ \E id \in SourceIds : DeleteSource(id)
    \/ \E dest \in RowCreateDestinationInputs : CreateDestination(dest)
    \/ \E id \in DestinationIds, upd \in RowUpdateDestinationInputs :
          UpdateDestination(id, upd)
    \/ \E id \in DestinationIds : DeleteDestination(id)

SpecSecrets == Init /\ [][NextSecrets]_vars

\* Store calls that exercise deletion: sources with aliases and blobs, and
\* destinations.
NextCascade ==
    \/ \E src \in RowCreateSourceInputs : CreateSource(src)
    \/ \E id \in SourceIds : DeleteSource(id)
    \/ \E id \in SourceIds, c \in IcsContents : SaveIcsData(id, c)
    \/ \E sid \in SourceIds, body \in RowCreateSourcePathInputs :
          CreateSourcePath(sid, body)
    \/ \E id \in SourcePathIds : DeleteSourcePath(id)
    \/ \E dest \in RowCreateDestinationInputs : CreateDestination(dest)
    \/ \E id \in DestinationIds : DeleteDestination(id)

SpecCascade == Init /\ [][NextCascade]_vars

\* Steps of the handlers inside register_* / cancel and of the spawned tasks.
SchedulerStep ==
    \/ \E h \in HandlerIds : HandlerCancel(h)
    \/ \E h \in HandlerIds : HandlerReturn(h)
    \/ \E h \in HandlerIds : HandlerSpawn(h)
    \/ \E h \in HandlerIds : HandlerInsert(h)
    \/ \E g \in Generations : TaskPoll(g)
    \/ \E g \in Generations, ok \in BOOLEAN, delay_left \in BOOLEAN :
          TaskNet(g, ok, delay_left)
    \/ \E g \in Generations : TaskRetry(g)
    \/ \E g \in Generations : TaskTryRemove(g)

\* Concurrent requests on sources (intervals 0 and 5) and the tasks they
\* schedule.
NextSched ==
    \/ \E h \in HandlerIds, body \in SchedCreateSourceInputs :
          HandleCreateSource(h, body)
    \/ \E h \in HandlerIds, id \in SourceIds, body \in SchedUpdateSourceInputs :
          HandleUpdateSource(h, id, body)
    \/ \E h \in HandlerIds, id \in SourceIds : HandleDeleteSource(h, id)
    \/ SchedulerStep

SpecSched == Init /\ [][NextSched]_vars

\* Concurrent requests on destinations and the tasks they schedule; the
\* registry holds one key per destination.
NextSchedDestinations ==
    \/ \E h \in HandlerIds, body \in SchedCreateDestinationInputs :
          HandleCreateDestination(h, body)
    \/ \E h \in HandlerIds, id \in DestinationIds,
          body \in SchedUpdateDestinationInputs :
          HandleUpdateDestination(h, id, body)
    \/ \E h \in HandlerIds, id \in DestinationIds : HandleDeleteDestination(h, id)
    \/ SchedulerStep

SpecSchedDestinations == Init /\ [][NextSchedDestinations]_vars

\* Requests on sources whose interval is always positive.
LiveCreateSourceInputs == { ValidSource }

LiveUpdateSourceInputs ==
    { [NoUpdateSource EXCEPT !.sync_interval_secs = Some(5)] }

NextSchedLive ==
    \/ \E h \in HandlerIds, body \in LiveCreateSourceInputs :
          HandleCreateSource(h, body)
    \/ \E h \in HandlerIds, id \in SourceIds, body \in LiveUpdateSourceInputs :
          HandleUpdateSource(h, id, body)
    \/ \E h \in HandlerIds, id \in SourceIds : HandleDeleteSource(h, id)
    \/ SchedulerStep

\* Scheduling the runtime provides: a handler that entered register_* or
\* cancel runs to its end (it only takes locks that are always released), a
\* spawned task is polled, its timers fire and its network call returns.
\* Nothing obliges clients to send requests.
SchedFairness ==
    /\ \A h \in HandlerIds :
          /\ WF_vars(HandlerCancel(h))
          /\ WF_vars(HandlerReturn(h))
          /\ WF_vars(HandlerSpawn(h))
          /\ WF_vars(HandlerInsert(h))
    /\ \A g \in 0..(MaxTasks - 1) :
          /\ WF_vars(g \in Generations /\ TaskPoll(g))
          /\ WF_vars(g \in Generations /\
                       \E ok \in BOOLEAN, delay_left \in BOOLEAN :
                           TaskNet(g, ok, delay_left))
          /\ WF_vars(g \in Generations /\ TaskRetry(g))
          /\ WF_vars(g \in Generations /\ TaskTryRemove(g))

SpecSchedLive == Init /\ [][NextSchedLive]_vars /\ SchedFairness

\* Steps of the handlers and of the tasks, with the retries of a tick counted.
TickStep ==
    \/ \E h \in HandlerIds : HandlerCancel(h)
    \/ \E h \in HandlerIds : HandlerReturn(h)
    \/ \E h \in HandlerIds : HandlerSpawn(h)
    \/ \E h \in HandlerIds : HandlerInsert(h)
    \/ \E g \in Generations : TaskPoll(g)
    \/ \E g \in Generations : TaskRetry(g)
    \/ \E g \in Generations : TaskTryRemove(g)

\* Sources with interval 5 and their ticks, each attempt failing or not.
NextRetry ==
    \/ \E h \in HandlerIds, body \in LiveCreateSourceInputs :
          HandleCreateSource(h, body)
    \/ \E h \in HandlerIds, id \in SourceIds : HandleDeleteSource(h, id)
    \/ \E g \in Generations, ok \in BOOLEAN, content \in IcsContents :
          TaskAttempt(g, ok, content)
    \/ TickStep

SpecRetry == Init /\ [][NextRetry]_vars

\* A source and a single destination, each with interval 5, their ticks,
\* and the deletion of the destination.
NextTick ==
    \/ \E h \in HandlerIds, body \in LiveCreateSourceInputs :
          HandleCreateSource(h, body)
    \/ \E h \in HandlerIds, body \in SchedCreateDestinationInputs :
          /\ db.seq.destinations = 0
          /\ HandleCreateDestination(h, body)
    \/ \E h \in HandlerIds, id \in DestinationIds :
          HandleDeleteDestination(h, id)
    \/ \E g \in Generations, ok \in BOOLEAN, content \in IcsContents :
          TaskAttempt(g, ok, content)
    \/ TickStep

SpecTick == Init /\ [][NextTick]_vars

\* Forward syncs of a source, scheduled and manual, whose feed changes.
NextForward ==
    \/ \E h \in HandlerIds, body \in LiveCreateSourceInputs :
          HandleCreateSource(h, body)
    \/ \E h \in HandlerIds, id \in SourceIds : HandleDeleteSource(h, id)
    \/ \E h \in HandlerIds, id \in SourceIds : HandleSyncSource(h, id)
    \/ \E h \in HandlerIds, ok \in BOOLEAN, content \in SyncedContents :
          HandlerSyncDone(h, ok, content)
    \/ \E g \in Generations, ok \in BOOLEAN, content \in SyncedContents :
          TaskAttempt(g, ok, content)
    \/ TickStep

SpecForward == Init /\ [][NextForward]_vars

\* Reverse syncs against a server that stores what it is sent, while the
\* feed, the calendar and the clock change between runs.
NextReverse ==
    \/ \E ics_text \in FeedEdits : FeedChanges(ics_text)
    \/ \E o \in ClientObjects : ClientPut(o[1], o[2])
    \/ ClockTick
    \/ \E sync_all \in BOOLEAN, keep_local \in BOOLEAN :
          RunReverseSync(sync_all, keep_local, {}, <<>>)

SpecReverse == Init /\ [][NextReverse]_vars

\* Reverse syncs against a server that may refuse PUTs.
NextReverseFailing ==
    \/ \E ics_text \in FeedEdits : FeedChanges(ics_text)
    \/ \E o \in ClientObjects : ClientPut(o[1], o[2])
    \/ \E sync_all \in BOOLEAN, keep_local \in BOOLEAN :
          \E failing \in SUBSET DOMAIN extract_events(feed) :
              RunReverseSync(sync_all, keep_local, failing, <<>>)

SpecReverseFailing == Init /\ [][NextReverseFailing]_vars

\* The store behind the ICS routes.
NextServe ==
    \/ \E src \in ServeCreateSourceInputs : CreateSource(src)
    \/ \E id \in SourceIds, upd \in ServeUpdateSourceInputs : UpdateSource(id, upd)
    \/ \E id \in SourceIds : SaveIcsData(id, ServedContent(id))
    \/ \E sid \in SourceIds, body \in ServeCreateSourcePathInputs :
          CreateSourcePath(sid, body)
    \/ \E id \in SourcePathIds, upd \in ServeUpdateSourcePathInputs :
          UpdateSourcePath(id, upd)
    \/ \E path \in ServeRequestPaths :
          ServePublicIcs(path) \/ IsPublicStandardIcs(path)

SpecServe == Init /\ [][NextServe]_vars

\* Requests on /api/sources/{source_id}/paths, for sources and aliases that
\* exist, existed or never existed.
NextPathsApi ==
    \/ \E src \in {[ValidSource EXCEPT !.ics_path = p] : p \in {<<"a">>, <<"b">>}} :
          CreateSource(src)
    \/ \E id \in SourceIds : DeleteSource(id)
    \/ \E source_id \in 1..MaxSources :
          \/ \E body \in ApiCreateSourcePathInputs :
                HandleCreateSourcePath(source_id, body)
          \/ \E path_id \in 1..MaxSourcePaths :
                \/ \E body \in ApiUpdateSourcePathInputs :
                      HandleUpdateSourcePath(source_id, path_id, body)
                \/ HandleDeleteSourcePath(source_id, path_id)

SpecPathsApi == Init /\ [][NextPathsApi]_vars

\* One destination with interval 5: its periodic task and manual syncs, lock
\* by lock; the critical sections of the other handlers are single steps
\* that need the lock free.
NextLock ==
    \/ /\ db_lock_free
       /\ \/ \E h \in HandlerIds, body \in SchedCreateDestinationInputs :
                /\ db.seq.destinations = 0
                /\ body.sync_interval_secs > 0
                /\ HandleCreateDestination(h, body)
          \/ \E h \in HandlerIds, id \in DestinationIds :
                HandleDeleteDestination(h, id)
    \/ \E h \in HandlerIds :
          \/ HandlerCancel(h) \/ HandlerSpawn(h) \/ HandlerInsert(h)
          \/ \E id \in DestinationIds : SyncDestinationLock(h, id)
          \/ SyncDestinationGet(h)
          \/ \E ok \in BOOLEAN : SyncDestinationReturns(h, ok)
          \/ SyncDestinationStatus(h)
    \/ \E g \in Generations :
          \/ TaskLock(g) \/ TaskGet(g)
          \/ \E ok \in BOOLEAN, delay_left \in BOOLEAN :
                TaskNetReturns(g, ok, delay_left)
          \/ TaskCommit(g, "ics1")
          \/ TaskHandleSyncError(g)
          \/ TaskTryRemove(g)

SpecLock == Init /\ [][NextLock]_vars

\* Creates and updates of the three kinds of rows with inputs the store
\* accepts and inputs it rejects: a blank name, a negative interval, a
\* reserved ics_path, an ics_path in use, an alias equal to the ics_path, a
\* source path that is blank, begins with "/" or holds "..".
RejectCreateSourceInputs ==
    { [ValidSource EXCEPT !.ics_path = p] : p \in {<<"a">>, <<"public">>} }
    \cup { [ValidSource EXCEPT !.name = <<" ">>],
           [ValidSource EXCEPT !.sync_interval_secs = -1],
           [ValidSource EXCEPT !.ics_path = <<"b">>, !.public_ics = TRUE,
                               !.public_ics_path = Some(<<"b">>)] }

RejectUpdateSourceInputs ==
    { [NoUpdateSource EXCEPT !.name = Some(<<"m">>)],
      [NoUpdateSource EXCEPT !.username = Some(<<>>)],
      [NoUpdateSource EXCEPT !.sync_interval_secs = Some(-1)],
      [NoUpdateSource EXCEPT !.ics_path = Some(<<"public", "/", "a">>)],
      [NoUpdateSource EXCEPT !.ics_path = Some(<<"c">>)],
      [NoUpdateSource EXCEPT !.public_ics = Some(TRUE),
                             !.public_ics_path = Some(<<"a">>)] }

RejectCreateDestinationInputs ==
    { ValidDestination,
      [ValidDestination EXCEPT !.ics_url = <<" ">>],
      [ValidDestination EXCEPT !.sync_interval_secs = -1] }

RejectUpdateDestinationInputs ==
    { [NoUpdateDestination EXCEPT !.name = Some(<<"m">>)],
      [NoUpdateDestination EXCEPT !.calendar_name = Some(<<" ">>)],
      [NoUpdateDestination EXCEPT !.sync_interval_secs = Some(-1)] }

NextReject ==
    \/ \E src \in RejectCreateSourceInputs : CreateSource(src)
    \/ \E id \in SourceIds, upd \in RejectUpdateSourceInputs :
          UpdateSource(id, upd)
    \/ \E sid \in SourceIds, body \in ApiCreateSourcePathInputs :
          CreateSourcePath(sid, body)
    \/ \E id \in SourcePathIds, upd \in ApiUpdateSourcePathInputs :
          UpdateSourcePath(id, upd)
    \/ \E dest \in RejectCreateDestinationInputs : CreateDestination(dest)
    \/ \E id \in DestinationIds, upd \in RejectUpdateDestinationInputs :
          UpdateDestination(id, upd)

SpecReject == Init /\ [][NextReject]_vars

\* Feeds whose blocks end in the past (0), at 1, have a DTEND that is no
\* date, or have none: u1 alone or with a second block, and u2.
UploadBlocks ==
    { VEvent("u1", "a", 0, 1), VEvent("u1", "a", 1, 1),
      VEvent("u1", "b", Unreadable, 1), VEvent("u2", "a", NoEnd, 1),
      VEvent("u2", "a", 0, 1) }

\* The publisher builds such a feed; then reverse syncs run against a
\* calendar that starts empty, as the clock moves.
NextUpload ==
    \/ \E v \in UploadBlocks :
          /\ Len(feed) < MaxFeedLen
          /\ caldav = <<>>
          /\ FeedChanges(Append(feed, v))
    \/ ClockTick
    \/ \E sync_all \in BOOLEAN, keep_local \in BOOLEAN :
          RunReverseSync(sync_all, keep_local, {}, <<>>)

SpecUpload == Init /\ [][NextUpload]_vars

\* Starts of the server on files of earlier versions, and edits of the
\* intervals in between.
NextMigrate ==
    \/ \E file \in LegacyFiles : StartOn(file)
    \/ Start
    \/ \E t \in {"sources", "destinations"}, secs \in {0, 5} :
          EditInterval(t, 1, secs)

SpecMigrate == Init /\ [][NextMigrate]_vars

\* Answers to the DELETEs of a run that fail: a 500, or no response (0),
\* for any of the UIDs the feed of this specification never carries.
Refusals ==
    UNION { [S -> {0, 500}] : S \in SUBSET {"u2", "u3"} }

\* Reverse syncs of a feed with u1 against a calendar that other clients
\* fill, with a server that may fail DELETEs.
NextDelete ==
    \/ \E ics_text \in {<<>>, <<VEvent("u1", "a", 9, 1)>>} : FeedChanges(ics_text)
    \/ \E o \in ClientObjects : ClientPut(o[1], o[2])
    \/ \E sync_all \in BOOLEAN, keep_local \in BOOLEAN, refused \in Refusals :
          RunReverseSync(sync_all, keep_local, {}, refused)

SpecDelete == Init /\ [][NextDelete]_vars

\* Handlers, register_all and periodic tasks of one destination, followed
\* from each lock() of either mutex to the end of the guard's scope.
NextMutex ==
    \/ /\ db_lock_free
       /\ \/ \E h \in HandlerIds, body \in SchedCreateDestinationInputs :
                /\ db.seq.destinations = 0
                /\ body.sync_interval_secs > 0
                /\ HandleCreateDestination(h, body)
          \/ \E h \in HandlerIds, id \in DestinationIds,
                   body \in SchedUpdateDestinationInputs :
                HandleUpdateDestination(h, id, body)
          \/ \E h \in HandlerIds, id \in DestinationIds :
                HandleDeleteDestination(h, id)
    \/ \E h \in HandlerIds :
          \/ RegisterAll(h)
          \/ HandlerLockRegistry(h)
          \/ handlers[h].registry_guard /\ HandlerCancel(h)
          \/ HandlerReturn(h)
          \/ HandlerSpawn(h)
          \/ handlers[h].registry_guard /\ HandlerInsert(h)
    \/ \E g \in Generations :
          \/ TaskLock(g) \/ TaskGet(g)
          \/ \E ok \in BOOLEAN, delay_left \in BOOLEAN :
                TaskNetReturns(g, ok, delay_left)
          \/ TaskCommit(g, "ics1")
          \/ TaskHandleSyncError(g)
          \/ TaskLockRegistry(g)
          \/ tasks[g].registry_guard /\ TaskTryRemove(g)

SpecMutex == Init /\ [][NextMutex]_vars

\* events_equal on groups that differ in presentation or in content.
NextCompare ==
    \/ \E group \in ComparedGroups : Compare(group)
    \/ \E b \in 1..2, i \in 1..MaxBlockLines :
          \/ ReorderLines(b, i)
          \/ \E at \in {0, 1, 4} : Refold(b, i, at)
          \/ \E l \in VolatileLines : VolatileEdit(b, i, l)
          \/ \E l \in OtherLines : ChangeLine(b, i, l)
    \/ \E b \in 1..2 : ReorderBlocks(b)
    \/ ChangeCardinality

SpecCompare == Init /\ [][NextCompare]_vars

-----------------------------------------------------------------------------
(* Properties of the store.                                                *)

\* Every place of the store that holds a serving path.
PathSlots(conn) ==
    {<<"ics_path", i>> : i \in DOMAIN conn.sources}
    \cup {<<"public_ics_path", i>> :
            i \in {x \in DOMAIN conn.sources : IsSome(conn.sources[x].public_ics_path)}}
    \cup {<<"source_path", j>> : j \in DOMAIN conn.source_paths}

SlotPath(conn, slot) ==
    IF slot[1] = "ics_path" THEN conn.sources[slot[2]].ics_path
    ELSE IF slot[1] = "public_ics_path"
    THEN Unwrap(conn.sources[slot[2]].public_ics_path)
    ELSE conn.source_paths[slot[2]].path

CollisionMessages ==
    { "Duplicate ICS Path is not allowed",
      "ICS path conflicts with an existing source path",
      "Duplicate public ICS path is not allowed",
      "Public path conflicts with an existing source path",
      "Public ICS path cannot be the same as the ICS path",
      "Path conflicts with an existing source ICS path",
      "Duplicate path is not allowed" }

\* C1: in every reachable store state no serving path is held twice among
\* the Sources' ics_path, their non-null public_ics_path and the
\* SourcePaths' path; in particular a Source's public_ics_path differs from
\* its own ics_path.
C1_PathNamespaceUnique ==
    \A s1 \in PathSlots(db), s2 \in PathSlots(db) :
        s1 # s2 => SlotPath(db, s1) # SlotPath(db, s2)

\* A create_source_path was rejected as colliding while the store holds an
\* ics_path and a public alias.
C1_Witness ==
    /\ last.op = "create_source_path"
    /\ last.res = "err"
    /\ last.msg \in CollisionMessages
    /\ \E i \in DOMAIN db.sources : IsSome(db.sources[i].public_ics_path)

\* C2: in every reachable store state no stored ics_path, public_ics_path or
\* SourcePath.path equals "public" or starts with "public/".
C2_NoReservedPath ==
    \A s \in PathSlots(db) :
        /\ SlotPath(db, s) # <<"public">>
        /\ ~starts_with_public_slash(SlotPath(db, s))

\* An update_source was rejected for a reserved path while a source with a
\* public alias and a source path are stored.
C2_Witness ==
    /\ last.op = "update_source"
    /\ last.msg = "ICS path cannot start with 'public'"
    /\ \E i \in DOMAIN db.sources : IsSome(db.sources[i].public_ics_path)
    /\ DOMAIN db.source_paths # {}

\* C3: in every reachable store state a Source with public_ics = false has
\* public_ics_path = null.
C3_PrivateHasNoAlias ==
    \A i \in DOMAIN db.sources :
        ~db.sources[i].public_ics => db.sources[i].public_ics_path = None

\* An update_source succeeded on a source that had an alias and left it with
\* public_ics = false.
C3_Witness ==
    /\ last.op = "update_source"
    /\ last.res = "ok"
    /\ IsSome(last.prev.public_ics_path)
    /\ ~db.sources[last.id].public_ics

BlankOrAbsent(pw) == ~IsSome(pw) \/ trim(Unwrap(pw)) = <<>>

StoredPassword(op, id) ==
    IF op = "update_source" THEN db.sources[id].password
    ELSE db.destinations[id].password

\* C4: after a successful update_source or update_destination the stored
\* password equals the one stored before when the update carried no password
\* or a blank one, and equals the supplied password otherwise.
C4_BlankPasswordKeepsSecret ==
    (last.op \in {"update_source", "update_destination"} /\ last.res = "ok") =>
        StoredPassword(last.op, last.id) =
            IF BlankOrAbsent(last.pw) THEN Unwrap(last.prev.password)
            ELSE Unwrap(last.pw)

\* An update_destination carrying a whitespace password succeeded on a
\* destination whose password had been changed before.
C4_Witness ==
    /\ last.op = "update_destination"
    /\ last.res = "ok"
    /\ last.pw = Some(<<" ">>)
    /\ db.destinations[last.id].password = <<"q">>

NoOrphanRows ==
    /\ \A j \in DOMAIN db.source_paths :
          db.source_paths[j].source_id \in DOMAIN db.sources
    /\ DOMAIN db.ics_data \subseteq DOMAIN db.sources

AfterDeleteSource ==
    (last.op = "delete_source" /\ last.res = "ok") =>
        /\ last.id \notin DOMAIN db.sources
        /\ \A j \in DOMAIN db.source_paths : db.source_paths[j].source_id # last.id
        /\ get_ics_data(db, last.id) = None

DeleteDestinationFrame ==
    last'.op = "delete_destination" =>
        /\ db'.sources = db.sources
        /\ db'.source_paths = db.source_paths
        /\ db'.ics_data = db.ics_data
        /\ \A d \in DOMAIN db.destinations \ {last'.id} :
              get_destination(db', d) = get_destination(db, d)

\* C5: after delete_source(id) no SourcePath of id and no IcsBlob of id
\* remains (no row ever refers to a missing source), and delete_destination
\* leaves every Source, SourcePath, IcsBlob and other Destination unchanged.
C5_DeletionCascades ==
    /\ [](NoOrphanRows /\ AfterDeleteSource)
    /\ [][DeleteDestinationFrame]_vars

\* A delete_source succeeded and took an alias and a blob with it.
C5_Witness ==
    /\ last.op = "delete_source"
    /\ last.res = "ok"
    /\ last.cascaded = 2

-----------------------------------------------------------------------------
(* Scheduler properties.                                                   *)

SchedKeys == { tasks[g].key : g \in Generations } \cup DOMAIN registry

\* A task is live once spawned and until it is aborted or has finished.
Live(g) == tasks[g].pc \notin {"done", "cancelled"} /\ ~tasks[g].aborted

LiveTasksOf(key) == { g \in Generations : tasks[g].key = key /\ Live(g) }

\* C6: at any instant each Source id and each Destination id has at most one
\* live periodic task (spawned, not aborted, not finished), whatever the
\* interleaving of the API handlers and of the tasks' own termination.
C6_AtMostOneLiveTask ==
    \A key \in SchedKeys : Cardinality(LiveTasksOf(key)) <= 1

\* C7: at any instant the registry entry of a key carries the generation
\* allocated by the latest completed register call for that key, latest in
\* the order the calls were made, also when two calls overlap.
C7_EntryIsLatestRegistration ==
    \A key \in DOMAIN registry :
        /\ key \in DOMAIN registered
        /\ registered[key] = Some(registry[key])

\* C8: a task that leaves its loop removes registry[key] only if the entry
\* stored under its key carries its own generation; otherwise (a newer
\* registration, or no entry) the registry stays exactly as it was.
C8_StaleTaskKeepsNewerEntry ==
    [][\A g \in Generations :
          (tasks[g].pc = "exit" /\ tasks'[g].pc = "done") =>
              LET key == tasks[g].key IN
              IF key \in DOMAIN registry /\ registry[key] = g
              THEN registry' = Remove(registry, key)
              ELSE registry' = registry]_vars

C8_Witness ==
    \E g \in Generations :
        /\ tasks[g].pc = "done"
        /\ tasks[g].removed = "stale"
        /\ tasks[g].key \in DOMAIN registry
        /\ registry[tasks[g].key] > g

\* C9: cancel(key) removes the entry of key and aborts the task it named,
\* leaves the entry of every other key as it was, and when key has no entry
\* (a second cancel, or a key never registered) changes nothing at all.
C9_CancelRemovesOnlyItsKey ==
    [][\A h \in HandlerIds :
          (handlers[h].pc = "cancel" /\ handlers'[h].pc = "after_cancel") =>
              LET key == handlers[h].key IN
              /\ key \notin DOMAIN registry'
              /\ DOMAIN registry' = DOMAIN registry \ {key}
              /\ \A k \in DOMAIN registry' : registry'[k] = registry[k]
              /\ key \in DOMAIN registry =>
                     \/ tasks'[registry[key]].aborted
                     \/ tasks'[registry[key]].pc = "done"
              /\ key \notin DOMAIN registry =>
                     registry' = registry /\ tasks' = tasks]_vars

C9_Witness ==
    \E h1, h2 \in HandlerIds :
        /\ handlers[h1].pc = "after_cancel" /\ handlers[h1].had
        /\ handlers[h2].pc = "after_cancel" /\ ~handlers[h2].had
        /\ handlers[h1].key = handlers[h2].key
        /\ handlers[h1].key \notin DOMAIN registry
        /\ \E g \in Generations :
              tasks[g].key = handlers[h1].key /\ tasks[g].pc = "cancelled"

\* C10: when register_* returns for an entity whose sync_interval_secs is not
\* positive, the registry has no entry for its key and no task of that key
\* is live.
C10_DisabledIntervalLeavesNothing ==
    [][\A h \in HandlerIds :
          (/\ handlers[h].pc = "after_cancel"
           /\ handlers[h].op = "register"
           /\ handlers[h].interval <= 0
           /\ handlers'[h].pc = "idle") =>
              /\ handlers[h].key \notin DOMAIN registry'
              /\ \A g \in DOMAIN tasks' :
                    tasks'[g].key = handlers[h].key =>
                        \/ tasks'[g].pc \in {"done", "cancelled"}
                        \/ tasks'[g].aborted]_vars

\* A source that existed and whose row has been deleted.
DeletedSource(id) == id <= db.seq.sources /\ id \notin DOMAIN db.sources

\* C11: once a source with a positive interval has been deleted through the
\* API, the registry eventually holds no entry for its key and no task of the
\* key is live, whatever requests and task steps the delete interleaves with.
C11_DeletedEntityLeavesRegistry ==
    \A id \in 1..MaxSources :
        DeletedSource(id) ~>
            (/\ AutoSyncKey("Source", id) \notin DOMAIN registry
             /\ LiveTasksOf(AutoSyncKey("Source", id)) = {})

\* Number of the attempt a task is making in its current tick: the first one
\* plus one per delay of the strategy already used.
Attempt(g) == tasks[g].retries + 1

Journal(conn, key) ==
    LET e == Unwrap(get_entity(conn, key)) IN
    <<e.last_sync_status, e.last_sync_error>>

C14_FailedSyncKeepsBlob ==
    [][\A id \in DOMAIN db.sources :
          LET key == AutoSyncKey("Source", id) IN
          /\ \A h \in HandlerIds, c \in SyncedContents :
                (HandlerSyncDone(h, FALSE, c) /\ handlers[h].key = key) =>
                   /\ get_ics_data(db', id) = get_ics_data(db, id)
                   /\ Journal(db', key) = <<Some("error"), Some("sync failed")>>
          /\ \A g \in Generations, c \in SyncedContents :
                (TaskAttempt(g, FALSE, c) /\ tasks[g].key = key) =>
                   /\ get_ics_data(db', id) = get_ics_data(db, id)
                   /\ tasks'[g].pc = "wait" =>
                         Journal(db', key) = <<Some("error"), Some("sync failed")>>
          /\ (id \in DOMAIN db'.sources
               /\ get_ics_data(db', id) # get_ics_data(db, id)) =>
                 \E c \in SyncedContents :
                    \/ \E h \in HandlerIds :
                          HandlerSyncDone(h, TRUE, c) /\ handlers[h].key = key
                    \/ \E g \in Generations :
                          TaskAttempt(g, TRUE, c) /\ tasks[g].key = key]_vars

\* A source that holds the blob of an earlier sync and whose latest sync
\* failed, with no request in flight and its task asleep.
C14_Witness ==
    \E id \in DOMAIN db.sources :
        /\ IsSome(get_ics_data(db, id))
        /\ Journal(db, AutoSyncKey("Source", id)) =
               <<Some("error"), Some("sync failed")>>
        /\ \A h \in HandlerIds : handlers[h].pc = "idle"
        /\ \E g \in Generations : tasks[g].pc = "wait" /\ ~tasks[g].aborted

-----------------------------------------------------------------------------
(* Reverse sync: what a run is expected to do, stated on the feed and on   *)
(* the calendar as it was before the run (reverse.before).                 *)

\* The UIDs of the VEVENT blocks of an ICS text.
UidsOf(ics_text) == {ics_text[i].UID : i \in DOMAIN ics_text} \ {""}

\* Where the calendar holds blocks of a UID: object and position.
Held(cal, uid) ==
    { p \in UNION { {<<h, i>> : i \in DOMAIN cal[h]} : h \in DOMAIN cal } :
        cal[p[1]][p[2]].UID = uid }

\* What two blocks must share to be the same event: every line but DTSTAMP.
Essential(v) == <<v.UID, v.SUMMARY, v.DTEND>>

\* The calendar holds the UID with a group semantically equal to the feed's.
SameGroup(cal, ics_text, uid) ==
    /\ Held(cal, uid) # {}
    /\ \A e \in {Essential(cal[p[1]][p[2]]) : p \in Held(cal, uid)} \cup
                {Essential(ics_text[i]) : i \in DOMAIN ics_text} :
          e[1] = uid =>
             Cardinality({p \in Held(cal, uid) :
                             Essential(cal[p[1]][p[2]]) = e}) =
             Cardinality({i \in DOMAIN ics_text : Essential(ics_text[i]) = e})

\* The UIDs a run considers for upload.
UploadSet ==
    { uid \in UidsOf(feed) :
        \/ reverse.sync_all
        \/ \E i \in DOMAIN feed : feed[i].UID = uid /\ feed[i].DTEND > reverse.at }

Unchanged == { uid \in UploadSet : SameGroup(reverse.before, feed, uid) }

\* C15: a run on a feed without any VEVENT that has a UID sends no PUT and
\* no DELETE, leaves the calendar as it was and returns Ok with uploaded =
\* skipped = deleted = total = 0, whatever sync_all, keep_local and the
\* calendar are.
C15_EmptyFeedTouchesNothing ==
    (reverse.ran /\ UidsOf(feed) = {}) =>
        /\ reverse.tag = "Ok"
        /\ reverse.val = Stats(0, 0, 0, 0)
        /\ reverse.puts = {} /\ reverse.deletes = {}
        /\ caldav = reverse.before

\* A run with sync_all and without keep_local on a feed whose only block has
\* no UID, against a calendar that holds objects.
C15_Witness ==
    /\ reverse.ran /\ reverse.sync_all /\ ~reverse.keep_local
    /\ feed # <<>> /\ UidsOf(feed) = {}
    /\ reverse.before # <<>>

\* C16: a run that repeats a successful run (same arguments, feed and
\* calendar untouched in between) on a server that stores every PUT and
\* performs every DELETE uploads nothing, skips its whole upload set and
\* deletes nothing.
C16_SecondRunChangesNothing ==
    (reverse.ran /\ reverse.again /\ reverse.tag = "Ok") =>
        /\ reverse.val.uploaded = 0
        /\ reverse.val.skipped = reverse.val.total
        /\ reverse.val.deleted = 0

\* C17: when the server refuses at least one PUT, the run still sends the
\* PUT of every UID of the upload set that is not skipped, returns the error
\* "Uploaded N events but M failed", and sends no DELETE.
C17_FailedUploadStopsDeletion ==
    (reverse.ran /\ UidsOf(feed) # {}
       /\ (UploadSet \ Unchanged) \cap reverse.failing # {}) =>
        /\ reverse.puts = {event_url(uid) : uid \in UploadSet \ Unchanged}
        /\ reverse.tag = "Err"
        /\ reverse.val =
              <<"Uploaded",
                Cardinality((UploadSet \ Unchanged) \ reverse.failing),
                "events but",
                Cardinality((UploadSet \ Unchanged) \cap reverse.failing),
                "failed">>
        /\ reverse.deletes = {}
        /\ DOMAIN reverse.before \subseteq DOMAIN caldav

\* One PUT stored and one refused, in a run that would otherwise have
\* deleted an orphan.
C17_Witness ==
    /\ reverse.ran /\ reverse.sync_all /\ ~reverse.keep_local
    /\ reverse.tag = "Err"
    /\ reverse.val = <<"Uploaded", 1, "events but", 1, "failed">>
    /\ Cardinality(reverse.puts) = 2
    /\ \E uid \in Uids \ UidsOf(feed) : Held(reverse.before, uid) # {}

\* C18: a run with keep_local = true sends no DELETE, removes no object and
\* returns deleted = 0, whatever the feed, the calendar and sync_all are.
C18_KeepLocalNeverDeletes ==
    (reverse.ran /\ reverse.keep_local) =>
        /\ reverse.deletes = {}
        /\ DOMAIN reverse.before \subseteq DOMAIN caldav
        /\ reverse.tag = "Ok" => reverse.val.deleted = 0

\* A successful run with keep_local and sync_all on a feed with events,
\* while the calendar holds a UID the feed lacks.
C18_Witness ==
    /\ reverse.ran /\ reverse.keep_local /\ reverse.sync_all
    /\ reverse.tag = "Ok"
    /\ UidsOf(feed) # {}
    /\ \E uid \in Uids \ UidsOf(feed) : Held(reverse.before, uid) # {}

\* C19: every DELETE of a run goes to <base><uid>.ics of a UID that the
\* calendar held before the run and that no VEVENT of the feed carries (the
\* whole feed, also when sync_all = false); with sync_all = false the
\* calendar held at least one block of the UID that was in the future.
C19_DeletesOnlyOrphans ==
    reverse.ran =>
        \A href \in reverse.deletes :
            \E uid \in Uids :
                /\ href = event_url(uid)
                /\ Held(reverse.before, uid) # {}
                /\ uid \notin UidsOf(feed)
                /\ ~reverse.sync_all =>
                      \E p \in Held(reverse.before, uid) :
                          reverse.before[p[1]][p[2]].DTEND > reverse.at

\* A run with sync_all = false that deleted an orphan while the calendar held
\* a UID of the feed whose feed blocks were all in the past.
C19_Witness ==
    /\ reverse.ran /\ ~reverse.sync_all /\ ~reverse.keep_local
    /\ reverse.deletes # {}
    /\ \E uid \in UidsOf(feed) \ UploadSet : Held(reverse.before, uid) # {}

\* C20: the PUTs of a run are exactly those to <base><uid>.ics for the UIDs
\* of the upload set that the calendar does not already hold with a
\* semantically equal group; the others are skipped, and a run that
\* succeeds reports skipped, uploaded and total accordingly.
C20_SkipsExactlyTheUnchanged ==
    (reverse.ran /\ UidsOf(feed) # {}) =>
        /\ reverse.puts = {event_url(uid) : uid \in UploadSet \ Unchanged}
        /\ reverse.tag = "Ok" =>
              /\ reverse.val.skipped = Cardinality(Unchanged)
              /\ reverse.val.uploaded = Cardinality(UploadSet \ Unchanged)
              /\ reverse.val.total = Cardinality(UploadSet)

\* A feed with an unchanged UID (the calendar's copy differs in DTSTAMP
\* only) and a new one: uploaded 1, skipped 1, total 2.
C20_Witness ==
    /\ reverse.ran /\ reverse.tag = "Ok"
    /\ reverse.val = Stats(1, 1, 0, 2)
    /\ \E h \in DOMAIN reverse.before :
          reverse.before[h] = <<VEvent("u1", "a", 1, 2)>>
    /\ reverse.puts = {event_url("u2")}

(* C21: events_equal is reflexive and symmetric; it holds between a group  *)
(* and any group obtained from it by reordering the lines of a block,      *)
(* reordering the blocks, folding lines elsewhere, or adding, changing or  *)
(* removing volatile lines; it fails once the groups differ in their       *)
(* number of blocks or in one line that is not volatile.                   *)
C21_EqualUpToPresentation ==
    LET existing == physical(compared.existing)
        incoming == physical(compared.incoming)
    IN  /\ events_equal(incoming, incoming)
        /\ events_equal(existing, incoming) = events_equal(incoming, existing)
        /\ events_equal(existing, incoming) = ~compared.semantic

\* Two blocks in the other order, a folded line, a new SEQUENCE line, and
\* the SUMMARY line moved: the texts differ, the groups are equal.
C21_Witness ==
    /\ ~compared.semantic
    /\ Len(compared.existing) = 2
    /\ \E i \in DOMAIN compared.incoming[1] :
          compared.incoming[1][i].text[1] = "RECURRENCE-ID"
    /\ \E b \in 1..2 :
          /\ \E i \in DOMAIN compared.incoming[b] :
                compared.incoming[b][i].at # 0
          /\ \E i \in DOMAIN compared.incoming[b] :
                compared.incoming[b][i].text[1] = "SEQUENCE"
          /\ compared.incoming[b][2].text[1] # "UID"
    /\ events_equal(physical(compared.existing), physical(compared.incoming))

\* The sources whose content GET /ics/public/{path} may give out.
PublishedAt(conn, path) ==
    { i \in DOMAIN conn.sources :
        \/ conn.sources[i].public_ics /\ conn.sources[i].public_ics_path = Some(path)
        \/ \E k \in DOMAIN conn.source_paths :
              /\ conn.source_paths[k].source_id = i
              /\ conn.source_paths[k].path = path
              /\ conn.source_paths[k].is_public }

(* C22: GET /ics/public/{path} answers 400 for a path that contains ".."   *)
(* or begins with "/"; otherwise it answers 200 with the blob of a Source  *)
(* only if the path is that Source's public_ics_path with public_ics on or *)
(* the path of one of its public SourcePaths, and 404 when the path        *)
(* publishes no Source.                                                    *)
C22_PublicRouteServesOnlyPublished ==
    response.handler = "serve_public_ics" =>
        LET path == response.request[1]
            invalid == \/ \E k \in DOMAIN path : path[k] = ".."
                       \/ (path # <<>> /\ path[1] = "/")
        IN  /\ response.status \in {200, 400, 404}
            /\ response.status = 400 <=> invalid
            /\ response.status = 200 =>
                  \E i \in PublishedAt(db, path) :
                      /\ i \in DOMAIN db.ics_data
                      /\ response.body = db.ics_data[i]
            /\ (~invalid /\ PublishedAt(db, path) = {}) =>
                  response.status = 404

\* A synced Source was published at the path and public_ics has just been
\* switched off: the path answers 404.
C22_Witness ==
    /\ response.handler = "serve_public_ics"
    /\ response.status = 404
    /\ last.op = "update_source" /\ last.res = "ok"
    /\ last.prev.public_ics_path = Some(response.request[1])
    /\ last.id \in DOMAIN db.ics_data
    /\ ~db.sources[last.id].public_ics

(* C23: is_public_standard_ics(path) is true exactly when the path is the  *)
(* ics_path of a Source with public_ics on and no public_ics_path, or the  *)
(* path of a public SourcePath; it is false for the ics_path of a Source   *)
(* that has a public_ics_path of its own.                                  *)
C23_PublicStandardIffNoCustomPath ==
    response.handler = "is_public_standard_ics" =>
        LET path == response.request[1]
            conn == db
        IN  /\ response.body =
                  \/ \E i \in DOMAIN conn.sources :
                        /\ conn.sources[i].ics_path = path
                        /\ conn.sources[i].public_ics
                        /\ conn.sources[i].public_ics_path = None
                  \/ \E k \in DOMAIN conn.source_paths :
                        /\ conn.source_paths[k].path = path
                        /\ conn.source_paths[k].is_public
            /\ (\E i \in DOMAIN conn.sources :
                    /\ conn.sources[i].ics_path = path
                    /\ conn.sources[i].public_ics_path # None) =>
                  ~response.body

\* Asked for the ics_path of a public Source with the public path "c": no.
C23_Witness ==
    /\ response.handler = "is_public_standard_ics"
    /\ ~response.body
    /\ \E i \in DOMAIN db.sources :
          /\ db.sources[i].ics_path = response.request[1]
          /\ db.sources[i].public_ics
          /\ db.sources[i].public_ics_path = Some(<<"c">>)

(* C24: PUT or DELETE on /api/sources/{sid}/paths/{pid}, where the         *)
(* SourcePath pid exists and belongs to another Source than sid, answers   *)
(* 404 and leaves the store as it was.                                     *)
C24_WrongSourceIs404 ==
    [][\A source_id \in 1..MaxSources, path_id \in DOMAIN db.source_paths :
          (/\ db.source_paths[path_id].source_id # source_id
           /\ \/ HandleDeleteSourcePath(source_id, path_id)
              \/ \E body \in ApiUpdateSourcePathInputs :
                    HandleUpdateSourcePath(source_id, path_id, body))
          => (response'.status = 404 /\ db' = db)]_vars

\* An alias of one existing Source was addressed under the other existing
\* Source with a change the store would have accepted: 404, alias as before.
C24_Witness ==
    /\ response.handler = "update_source_path"
    /\ response.status = 404
    /\ response.request[1] \in DOMAIN db.sources
    /\ response.request[2] \in DOMAIN db.source_paths
    /\ db.source_paths[response.request[2]].source_id # response.request[1]
    /\ response.request[3] = [path |-> Some(<<"d">>), is_public |-> Some(TRUE)]
    /\ db.source_paths[response.request[2]].path = <<"c">>

(* C25: the source-path endpoints answer by the kind of outcome: 404 when  *)
(* the request names a Source (on create) or a SourcePath of that Source   *)
(* (on update and delete) that does not exist, 400 when the store rejects  *)
(* the values, 201 or 200 otherwise; no store error of another kind occurs *)
(* here, so no 500.                                                        *)
C25_StatusByKind ==
    [][/\ \A source_id \in 1..MaxSources, body \in ApiCreateSourcePathInputs :
            HandleCreateSourcePath(source_id, body) =>
                response'.status =
                    IF source_id \notin DOMAIN db.sources THEN 404
                    ELSE IF db' = db THEN 400 ELSE 201
       /\ \A source_id \in 1..MaxSources, path_id \in 1..MaxSourcePaths :
            /\ \A body \in ApiUpdateSourcePathInputs :
                  HandleUpdateSourcePath(source_id, path_id, body) =>
                      response'.status =
                          IF \/ path_id \notin DOMAIN db.source_paths
                             \/ db.source_paths[path_id].source_id # source_id
                          THEN 404
                          ELSE IF path_id \in DOMAIN db'.source_paths
                                  /\ IsSome(body.path)
                                     => db'.source_paths[path_id].path =
                                          trim(Unwrap(body.path))
                          THEN 200 ELSE 400
            /\ HandleDeleteSourcePath(source_id, path_id) =>
                  response'.status =
                      IF \/ path_id \notin DOMAIN db.source_paths
                         \/ db.source_paths[path_id].source_id # source_id
                      THEN 404 ELSE 200]_vars

(* C26: no handler and no periodic task holds the store lock while it is   *)
(* suspended on network I/O or on a sleep.                                 *)
C26_NoGuardAcrossAwait ==
    /\ \A g \in Generations :
          tasks[g].pc \in {"wait", "net", "backoff"} => ~tasks[g].guard
    /\ \A h \in HandlerIds :
          handlers[h].pc \in {"run_reverse_sync", "run_sync"} => ~handlers[h].guard

\* The periodic task is suspended in its network call while the handler of
\* a manual sync holds the lock to write the status.
C26_Witness ==
    /\ \E g \in Generations : tasks[g].pc = "net" /\ ~tasks[g].guard
    /\ \E h \in HandlerIds :
          handlers[h].pc = "status_error" /\ handlers[h].guard

\* C27: a create or an update of a Source, a SourcePath or a Destination
\* that the store rejects returns an error and leaves every table of the
\* store, and every rowid counter, as it was before the call.
RejectingOps ==
    { "create_source", "update_source", "create_source_path",
      "update_source_path", "create_destination", "update_destination" }

C27_RejectedLeavesStore ==
    [][ (last'.op \in RejectingOps /\ last'.res = "err") => db' = db ]_vars

\* A rejected update of a source path (".." in the path) with rows in all
\* three tables.
C27_Witness ==
    /\ last.op = "update_source_path"
    /\ last.res = "err"
    /\ last.msg = "Path must not contain .."
    /\ DOMAIN db.sources # {}
    /\ DOMAIN db.source_paths # {}
    /\ DOMAIN db.destinations # {}

\* C28: once the sync function of a periodic task has found its entity gone
\* from the store, the task only moves on to handle_sync_error, out of the
\* loop and to its end: it does not run the sync function again, it does not
\* sleep, and its steps write nothing to the store.
Gone(g) == ~IsSome(get_entity(db, tasks[g].key))

StoppingRank(pc) ==
    CASE pc = "get" -> 1
      [] pc = "failed" -> 2
      [] pc = "handle_sync_error" -> 3
      [] pc = "exit" -> 4
      [] pc = "done" -> 5
      [] OTHER -> 0

C28_GoneEntityEndsTask ==
    [][ \A g \in Generations :
          (Gone(g) /\ StoppingRank(tasks[g].pc) > 0) =>
              /\ StoppingRank(tasks'[g].pc) >= StoppingRank(tasks[g].pc)
              /\ StoppingRank(tasks'[g].pc) <= StoppingRank(tasks[g].pc) + 1
              /\ tasks'[g].pc # tasks[g].pc => db' = db ]_vars

\* The task of a deleted destination has ended and has taken its own entry
\* out of the registry (the delete's cancel had not run yet).
C28_Witness ==
    \E g \in Generations :
        /\ Gone(g)
        /\ tasks[g].pc = "done"
        /\ tasks[g].removed = "own"

\* C29: a periodic task leaves its loop only when its entity is gone from
\* the store; a tick that ends while the entity exists, with the results
\* committed or with the failure recorded by handle_sync_error, is followed
\* by the interval sleep (where alone an abort can end the task), and the
\* sync function is entered only out of that sleep or out of a backoff delay
\* of the running tick.
EndsTick(g) ==
    /\ tasks[g].pc \in {"commit", "handle_sync_error"}
    /\ tasks'[g].pc \notin {"commit", "handle_sync_error", "backoff", "failed"}

StampedOnlyOnSuccess(before, after) ==
    \A id \in DOMAIN before \cap DOMAIN after :
        /\ after[id].last_synced # before[id].last_synced =>
               after[id].last_sync_status = Some("ok")
        /\ (after[id].last_sync_status = Some("ok")
              /\ before[id].last_sync_status # Some("ok")) =>
               IsSome(after[id].last_synced)

C30_LastSyncedOnlyOnSuccess ==
    [][ /\ StampedOnlyOnSuccess(db.sources, db'.sources)
        /\ StampedOnlyOnSuccess(db.destinations, db'.destinations) ]_vars

\* The same for Sources alone.
C30_SourcesLastSyncedOnlyOnSuccess ==
    [][ StampedOnlyOnSuccess(db.sources, db'.sources) ]_vars

\* C31: a run considers for upload every UID of the feed when sync_all is
\* set, and otherwise the UIDs with at least one block that ends after the
\* clock's reading or whose end cannot be read; it sends a PUT for no other
\* UID, and total is the number of UIDs considered.
EndsLater(v, t) == v.DTEND \in {Unreadable, NoEnd} \/ v.DTEND > t

FailOpenUploadSet ==
    { uid \in UidsOf(feed) :
        \/ reverse.sync_all
        \/ \E i \in DOMAIN feed : feed[i].UID = uid /\ EndsLater(feed[i], reverse.at) }

C31_UploadSetFailsOpen ==
    reverse.ran =>
        /\ reverse.tag = "Ok"
        /\ reverse.val.total = Cardinality(FailOpenUploadSet)
        /\ reverse.puts \subseteq {event_url(uid) : uid \in FailOpenUploadSet}
        /\ reverse.before = <<>> =>
               reverse.puts = {event_url(uid) : uid \in FailOpenUploadSet}

\* A run with sync_all = false at time 1 on a feed with u1 (its DTEND is
\* no date) and u2 (ended at 0): u1 alone is PUT.
C31_Witness ==
    /\ reverse.ran /\ ~reverse.sync_all /\ reverse.at = 1
    /\ feed = <<VEvent("u1", "b", Unreadable, 1), VEvent("u2", "a", 0, 1)>>
    /\ reverse.puts = {event_url("u1")}
    /\ reverse.val.total = 1

\* C32: init_db on a store that init_db has already initialised or migrated
\* changes no table, no column and no row; a sync_interval_secs edited
\* after the migration keeps its value although sync_interval_minutes is
\* still there.
C32_InitDbAgainChangesNothing ==
    [][ Start => store_file' = store_file ]_vars

\* A migrated store with the legacy column still in place and the interval
\* of its source edited since (the back-fill would write 60).
C32_Witness ==
    /\ "sync_interval_minutes" \in store_file["sources"].cols
    /\ store_file["sources"].rows[1]["sync_interval_minutes"] = 1
    /\ store_file["sources"].rows[1]["sync_interval_secs"] = 5

\* C33: in the deletion step a DELETE is sent for every orphan whatever the
\* answers to the others are; those answered 2xx or 404 are counted in
\* deleted, those answered otherwise or not at all are not counted and
\* their objects stay, and the run returns Ok all the same.
Orphans ==
    IF reverse.keep_local \/ UidsOf(feed) = {} THEN {}
    ELSE { uid \in Uids \ UidsOf(feed) :
             /\ Held(reverse.before, uid) # {}
             /\ reverse.sync_all
                \/ \E p \in Held(reverse.before, uid) :
                      EndsLater(reverse.before[p[1]][p[2]], reverse.at) }

C33_FailedDeleteIsNotCounted ==
    (reverse.ran /\ reverse.failing = {}) =>
        /\ reverse.tag = "Ok"
        /\ reverse.deletes = {event_url(uid) : uid \in Orphans}
        /\ reverse.val.deleted = Cardinality(Orphans \ DOMAIN reverse.refused)
        /\ \A uid \in Orphans \cap DOMAIN reverse.refused :
              event_url(uid) \in DOMAIN reverse.before =>
                 /\ event_url(uid) \in DOMAIN caldav
                 /\ caldav[event_url(uid)] = reverse.before[event_url(uid)]

\* A run with two orphans: the DELETE for u2 got a 500, the one for u3 was
\* answered 404 (its object has another name); deleted = 1 and u2 is still
\* on the calendar.
C33_Witness ==
    /\ reverse.ran /\ reverse.tag = "Ok"
    /\ Orphans = {"u2", "u3"}
    /\ DOMAIN reverse.refused = {"u2"} /\ reverse.refused["u2"] = 500
    /\ reverse.val.deleted = 1
    /\ event_url("u2") \in DOMAIN caldav

(* C34: no handler, register or cancel call and no periodic task holds the *)
(* store lock and the registry lock together, and none waits for one of    *)
(* them while it holds the other; whoever holds a lock can take its next   *)
(* step, so the waiting for a lock always ends.                            *)
WaitsForRegistry ==
    { h \in HandlerIds : handlers[h].pc \in {"cancel", "insert"}
                          /\ ~handlers[h].registry_guard }

TasksWaitingForRegistry ==
    { g \in Generations : tasks[g].pc = "exit" /\ ~tasks[g].registry_guard }

TasksWaitingForDb ==
    { g \in Generations : tasks[g].pc \in {"wait", "backoff", "resumed", "failed"}
                           /\ ~tasks[g].guard }

C34_NeverBothMutexes ==
    /\ \A h \in HandlerIds :
          /\ ~(handlers[h].guard /\ handlers[h].registry_guard)
          /\ handlers[h].guard => h \notin WaitsForRegistry
    /\ \A g \in Generations :
          /\ ~(tasks[g].guard /\ tasks[g].registry_guard)
          /\ tasks[g].guard => g \notin TasksWaitingForRegistry
          /\ tasks[g].registry_guard => g \notin TasksWaitingForDb
    /\ (WaitsForRegistry # {} \/ TasksWaitingForRegistry # {}
          \/ \E g \in Generations : tasks[g].pc \in {"resumed", "failed"})
       => ENABLED NextMutex

\* A handler holds the registry lock in cancel while the periodic task
\* holds the store lock for its writes, and a second handler waits for
\* the registry.
C34_Witness ==
    /\ \E h \in HandlerIds : handlers[h].registry_guard /\ ~handlers[h].guard
    /\ \E g \in Generations : tasks[g].guard /\ tasks[g].pc = "commit"
    /\ WaitsForRegistry # {}

\* C35: once every request has returned, the scheduler agrees with the
\* store: a Source has a live task if and only if its row exists with
\* sync_interval_secs > 0, in whatever order the handlers of overlapping
\* requests reached register_source and cancel.
AllReturned == \A h \in HandlerIds : handlers[h].pc = "idle"

Scheduled(id) ==
    id \in DOMAIN db.sources /\ db.sources[id].sync_interval_secs > 0

C35_SchedulerAgreesWithStore ==
    AllReturned =>
        \A id \in 1..MaxSources :
            LiveTasksOf(AutoSyncKey("Source", id)) # {} <=> Scheduled(id)

\* C36 (as claimed): once cancel(key) has returned, the task it aborted
\* makes no further write to the store.
C36_NoWriteAfterCancel ==
    [][\A g \in Generations :
          (tasks[g].aborted /\ tasks'[g] # tasks[g]) => db' = db]_vars

\* C36 (amended): once cancel(key) has returned, the task it aborted
\* writes to the store at most in the sections it runs before its next
\* suspension point (the closure's writes after the network call, and
\* handle_sync_error): it is dropped at that suspension point and never
\* resumes from a sleep, a backoff delay or a network call.
C36_NoWriteAfterNextSuspension ==
    [][\A g \in Generations :
          /\ tasks[g].aborted =>
                /\ tasks[g].pc \notin {"wait", "net", "backoff"}
                /\ (tasks'[g] # tasks[g] /\ db' # db) =>
                       tasks[g].pc \in {"commit", "handle_sync_error"}
          /\ tasks[g].pc = "cancelled" => tasks'[g] = tasks[g]]_vars

\* cancel has returned in the handler of an update while the task of the
\* destination, back from its network call, holds the store lock and is
\* about to write the status of the sync it made with the old settings.
C36_Witness ==
    \E g \in Generations :
        /\ tasks[g].aborted /\ tasks[g].pc = "commit" /\ tasks[g].guard
        /\ tasks[g].key.id \in DOMAIN db.destinations
        /\ db.destinations[tasks[g].key.id].last_sync_status = None
        /\ \E h \in HandlerIds :
              handlers[h].pc = "after_cancel" /\ handlers[h].op = "register"

\* C37: every registry entry refers to a task that has not terminated: once
\* a task has left its loop and finished, the registry holds no entry with
\* its generation, also when it finished before spawn_sync_task inserted
\* its handle.
C37_EntryRefersToUnfinishedTask ==
    \A key \in DOMAIN registry : tasks[registry[key]].pc # "done"

\* C38: ids are never reused: a new Source (Destination) gets an id greater
\* than every id a Source (Destination) ever had, deleted ones included.
\* seq holds the largest id ever assigned: no row has a greater one, it
\* never goes down, and every new row lies above it.
C38_IdsNeverReused ==
    [][/\ \A id \in DOMAIN db.sources : id <= db.seq.sources
       /\ \A id \in DOMAIN db.destinations : id <= db.seq.destinations
       /\ db'.seq.sources >= db.seq.sources
       /\ db'.seq.destinations >= db.seq.destinations
       /\ \A id \in DOMAIN db'.sources \ DOMAIN db.sources :
             id > db.seq.sources /\ id = db'.seq.sources
       /\ \A id \in DOMAIN db'.destinations \ DOMAIN db.destinations :
             id > db.seq.destinations /\ id = db'.seq.destinations]_vars

\* Source 2 was created after source 1 had been deleted, and destination 2
\* after destination 1.
C38_Witness ==
    /\ DOMAIN db.sources = {2} /\ db.seq.sources = 2
    /\ DOMAIN db.destinations = {2} /\ db.seq.destinations = 2

\* C39: the statistics of a run that returns Ok: uploaded + skipped = total,
\* total is the number of UIDs of the upload set, and deleted is at most the
\* number of UIDs the calendar held that the feed does not carry.
AbsentFromFeed ==
    { uid \in Uids \ UidsOf(feed) : Held(reverse.before, uid) # {} }

C39_StatsAddUp ==
    (reverse.ran /\ reverse.tag = "Ok") =>
        /\ reverse.val.uploaded + reverse.val.skipped = reverse.val.total
        /\ reverse.val.total =
              IF UidsOf(feed) = {} THEN 0 ELSE Cardinality(FailOpenUploadSet)
        /\ reverse.val.deleted <= Cardinality(AbsentFromFeed)

\* A run that skipped u1, uploaded nothing, and counted one of the two
\* orphans: the DELETE of the other failed.
C39_Witness ==
    /\ reverse.ran /\ reverse.tag = "Ok"
    /\ reverse.val.skipped = 1 /\ reverse.val.uploaded = 0
    /\ reverse.val.total = 1
    /\ reverse.val.deleted = 1
    /\ Cardinality(AbsentFromFeed) = 2

=========================================================================
